---- MODULE Spec2Model ----
(***************************************************************************)
(* A model of the elliptic curve engine of src/torsion/src/ecc.c.          *)
(*                                                                         *)
(* The engine is run on scaled-down curve definitions (a prime field and   *)
(* a prime-order group of five or eight bits, four-bit limbs) that keep    *)
(* the shape of the curves the source defines: h = 1, n prime, n < p < 2n, *)
(* size(n) = size(p), a = -3 or a = 0, p = 3 mod 4.  Field elements and    *)
(* scalars are the integers their limb arrays hold; byte strings are       *)
(* sequences of bytes, most significant first for the Weierstrass curves.  *)
(* C functions that return a flag and write through a pointer are          *)
(* operators returning a record [ret, r].                                   *)
(***************************************************************************)
EXTENDS Integers, Sequences, FiniteSets, TLC

(***************************************************************************)
(* Machine arithmetic.                                                     *)
(***************************************************************************)

\* 1 << k.
Pow2(k) == 2 ^ k

\* x ^ 1 and x & y on C truth values.
Not1(x) == 1 - x

B2I(b) == IF b THEN 1 ELSE 0

Max2(x, y) == IF x > y THEN x ELSE y

\* A statement and what follows it: F of the value of v, v evaluated first.
Eval(v, F(_)) == [x \in {v} |-> F(x)][v]

\* for (i = lo; i < hi; i++) acc = body(acc, i).  The range is halved, the
\* first half run before the second, so the iterations keep their order.
RECURSIVE For(_, _, _, _)
For(body(_, _), acc, lo, hi) ==
  IF hi <= lo THEN acc
  ELSE IF hi = lo + 1 THEN body(acc, lo)
  ELSE LET mid == (lo + hi) \div 2
       IN Eval(For(body, acc, lo, mid), LAMBDA a : For(body, a, mid, hi))

\* The number of bits of x < 2^30.
bit_length(x) == CHOOSE b \in 0..30 : x < 2 ^ b /\ (b = 0 \/ 2 ^ (b - 1) <= x)

\* The limb width of the scaled-down machine (GMP_NUMB_BITS in mpn.h).
GMP_NUMB_BITS == 4

WND_WIDTH == 4

WND_SIZE == Pow2(WND_WIDTH)

WND_STEPS(bits) == (bits + WND_WIDTH - 1) \div WND_WIDTH

NAF_WIDTH == 4

NAF_SIZE == Pow2(NAF_WIDTH - 1)

NAF_WIDTH_PRE == 8

NAF_SIZE_PRE == Pow2(NAF_WIDTH_PRE - 1)

\* Limb j of the limb array holding x.
mpn_limb(x, j) == (x \div Pow2(GMP_NUMB_BITS * j)) % Pow2(GMP_NUMB_BITS)

\* The value of a limb array of nn limbs: only nn limbs are kept.  (Every
\* value of the model is below 2^30, so an array of more bits keeps it.)
mpn_trunc(x, nn) ==
  IF GMP_NUMB_BITS * nn > 30 THEN x ELSE x % Pow2(GMP_NUMB_BITS * nn)

\* mpn_import: bytes to the integer they encode, in nn limbs.
RECURSIVE bytes_be(_)
bytes_be(raw) ==
  IF Len(raw) = 0 THEN 0
  ELSE 256 * bytes_be(SubSeq(raw, 1, Len(raw) - 1)) + raw[Len(raw)]

RECURSIVE bytes_le(_)
bytes_le(raw) ==
  IF Len(raw) = 0 THEN 0
  ELSE raw[1] + 256 * bytes_le(SubSeq(raw, 2, Len(raw)))

mpn_import(raw, size, nn, endian) ==
  LET b == SubSeq(raw, 1, size)
  IN mpn_trunc(IF endian = 1 THEN bytes_be(b) ELSE bytes_le(b), nn)

\* mpn_export: the low `size` bytes of x.
mpn_export(x, size, endian) ==
  [i \in 1..size |->
     IF endian = 1 THEN (x \div Pow2(8 * (size - i))) % 256
     ELSE (x \div Pow2(8 * (i - 1))) % 256]

mpn_bitlen(x) == bit_length(x)

\* The high part (product >> s) of mpn_mul_n, one row of limbs at a time:
\* floor((a * m + c) / 2^s).
RECURSIVE mpn_mul_hi(_, _, _, _)
mpn_mul_hi(a, m, s, c) ==
  IF s < GMP_NUMB_BITS \/ a < Pow2(GMP_NUMB_BITS)
  THEN (a * m + c) \div Pow2(s)
  ELSE mpn_mul_hi(a \div Pow2(GMP_NUMB_BITS), m, s - GMP_NUMB_BITS,
                  ((a % Pow2(GMP_NUMB_BITS)) * m + c) \div Pow2(GMP_NUMB_BITS))

\* mpn_invert_n: the inverse of a modulo the prime n, 0 for a = 0.
mpn_invert_n(a, n) ==
  IF a % n = 0 THEN [ret |-> 0, r |-> 0]
  ELSE [ret |-> 1, r |-> CHOOSE y \in 1..(n - 1) : (a * y) % n = 1]

\* bytes_lt: the constant-time comparison loop, from the most significant
\* byte down; state is the pair (eq, lt).
RECURSIVE bytes_lt_loop(_, _, _, _, _)
bytes_lt_loop(a, b, idx, eq, lt) ==
  IF idx = <<>> THEN lt * Not1(eq)
  ELSE LET x == a[Head(idx)]
           y == b[Head(idx)]
           lt1 == IF eq = 1 THEN B2I(x < y) ELSE lt
           eq1 == IF x = y THEN eq ELSE 0
       IN bytes_lt_loop(a, b, Tail(idx), eq1, lt1)

bytes_lt(a, b, size, endian) ==
  bytes_lt_loop(a, b,
                [i \in 1..size |-> IF endian = -1 THEN size + 1 - i ELSE i],
                1, 0)

(***************************************************************************)
(* Scalar field.                                                           *)
(***************************************************************************)

scalar_field_set(modulus, bits, endian) ==
  LET limbs == (bits + GMP_NUMB_BITS - 1) \div GMP_NUMB_BITS
      size == (bits + 7) \div 8
      shift == (limbs + 1) * 2
      n == bytes_be(SubSeq(modulus, 1, size))
  IN [endian |-> endian,
      limbs |-> limbs,
      size |-> size,
      bits |-> bits,
      shift |-> shift,
      n |-> n,
      nh |-> n \div 2,
      m |-> Pow2(shift * GMP_NUMB_BITS) \div n,
      raw |-> mpn_export(n, size, endian)]

scalar_field_init(def, endian) == scalar_field_set(def.n, def.bits, endian)

sc_zero(sc) == 0

\* sc_cleanse leaving the scalar as it is.
sc_cleanse_skipped(sc, r) == r

sc_cleanse(sc, r) == 0

sc_import(sc, raw) ==
  [ret |-> bytes_lt(raw, sc.raw, sc.size, sc.endian),
   r |-> mpn_import(raw, sc.size, sc.limbs, sc.endian)]

sc_import_weak(sc, raw) ==
  LET r == mpn_import(raw, sc.size, sc.limbs, sc.endian)
      cy == B2I(r < sc.n)
      sp == mpn_trunc(r - sc.n + Pow2(GMP_NUMB_BITS * sc.limbs), sc.limbs)
  IN [ret |-> B2I(cy # 0), r |-> IF cy = 0 THEN sp ELSE r]

\* u = a - h * n of sc_reduce, with h the estimated quotient (a * m) >> 2k.
sc_reduce_u(sc, ap) ==
  ap - mpn_mul_hi(ap, sc.m, sc.shift * GMP_NUMB_BITS, 0) * sc.n

\* sc_reduce without its conditional subtraction.
sc_reduce_once(sc, ap) ==
  mpn_trunc(ap - mpn_mul_hi(ap, sc.m, sc.shift * GMP_NUMB_BITS, 0) * sc.n,
            sc.limbs)

sc_reduce(sc, ap) ==
  LET up == sc_reduce_u(sc, ap)
      lo == mpn_trunc(up, sc.shift)
      cy == B2I(lo < sc.n)
      qp == mpn_trunc(lo - sc.n + Pow2(GMP_NUMB_BITS * sc.shift), sc.shift)
  IN mpn_trunc(IF cy = 0 THEN qp ELSE up, sc.limbs)

sc_import_strong(sc, raw) ==
  [ret |-> bytes_lt(raw, sc.raw, sc.size, sc.endian),
   r |-> sc_reduce(sc, mpn_import(raw, sc.size, sc.shift * 2, sc.endian))]

sc_import_reduce(sc, raw) ==
  IF sc.bits % 8 = 0 THEN sc_import_weak(sc, raw)
  ELSE sc_import_strong(sc, raw)

sc_export(sc, a) == mpn_export(a, sc.size, sc.endian)

sc_equal(sc, a, b) == B2I(a = b)

\* sc_cmp_var with its operands the wrong way round.
sc_cmp_var_swapped(sc, a, b) == IF b < a THEN -1 ELSE IF b > a THEN 1 ELSE 0

sc_cmp_var(sc, a, b) == IF a < b THEN -1 ELSE IF a > b THEN 1 ELSE 0

sc_is_zero(sc, a) == B2I(a = 0)

\* sc_is_high comparing with the order instead of half the order.
sc_is_high_order(sc, a) == B2I(a >= sc.n)

sc_is_high(sc, a) ==
  LET cy == B2I(a < sc.nh)
  IN B2I(cy = 0) * Not1(sc_equal(sc, a, sc.nh))

sc_is_high_var(sc, a) == B2I(sc_cmp_var(sc, a, sc.nh) > 0)

\* sc_neg leaving the scalar as it is.
sc_neg_skipped(sc, a) == a

sc_neg(sc, a) ==
  LET zero == sc_is_zero(sc, a)
      r == mpn_trunc(sc.n - a + Pow2(GMP_NUMB_BITS * sc.limbs), sc.limbs)
  IN IF zero = 1 THEN 0 ELSE r

sc_neg_cond_skipped(sc, a, flag) == a

sc_neg_cond(sc, a, flag) == IF flag # 0 THEN sc_neg(sc, a) ELSE a

\* sc_add without the final subtraction of the order.
sc_add_unreduced(sc, ap, bp) == mpn_trunc(ap + bp, sc.limbs)

sc_add(sc, ap, bp) ==
  LET nn == sc.limbs + 1
      up == mpn_trunc(ap + bp, nn)
      cy == B2I(up < sc.n)
      vp == mpn_trunc(up - sc.n + Pow2(GMP_NUMB_BITS * nn), nn)
  IN mpn_trunc(IF cy = 0 THEN vp ELSE up, sc.limbs)

sc_sub(sc, a, b) == sc_add(sc, a, sc_neg(sc, b))

sc_mul(sc, a, b) == sc_reduce(sc, a * b)

sc_sqr(sc, a) == sc_reduce(sc, a * a)

sc_mul_word(sc, a, word) ==
  LET bits == bit_length(word)
  IN IF word > 1 /\ word = Pow2(bits - 1)
     THEN For(LAMBDA r, i : sc_add(sc, r, r), sc_add(sc, a, a), 1, bits - 1)
     ELSE For(LAMBDA r, j :
                Eval(IF j # 0 THEN sc_add(sc, r, r) ELSE r,
                     LAMBDA r0 :
                       IF (word \div Pow2(bits - 1 - j)) % 2 = 1
                       THEN sc_add(sc, r0, a) ELSE r0),
              sc_zero(sc), 0, bits)

\* sc_mulshift: the product in 2 * limbs limbs, shifted right, the last
\* bit shifted out added back.
sc_mulshift(sc, a, b, shift) ==
  LET rp == mpn_trunc(a * b, sc.limbs * 2)
      i == shift - 1
      bit == mpn_limb(rp, i \div GMP_NUMB_BITS) \div Pow2(i % GMP_NUMB_BITS)
  IN mpn_trunc((rp \div Pow2(shift)) + (bit % 2), sc.limbs)

sc_invert_var(sc, a) == mpn_invert_n(a, sc.n)

\* One step of the square and multiply loop, at bit i of e.
sc_pow_step(sc, b, a, e, i) ==
  LET bit == mpn_limb(e, i \div GMP_NUMB_BITS) \div Pow2(i % GMP_NUMB_BITS)
      b1 == sc_sqr(sc, b)
  IN IF bit % 2 = 1 THEN sc_mul(sc, b1, a) ELSE b1

\* sc_pow with the exponent 2 whatever e is.
sc_pow_two(sc, a, e) == sc_sqr(sc, a)

sc_pow(sc, a, e) ==
  For(LAMBDA b, j : sc_pow_step(sc, b, a, e, sc.bits - 1 - j), 1, 0, sc.bits)

sc_invert(sc, a) ==
  [ret |-> Not1(sc_is_zero(sc, a)),
   r |-> sc_pow(sc, a, sc.n - 2)]

\* A bit length one short, which leaves max without its + 1.
sc_bitlen_short(sc, a) == mpn_bitlen(a) - 1

sc_bitlen_var(sc, a) == mpn_bitlen(a)

sc_get_bits(sc, a, i, w) ==
  (mpn_limb(a, i \div GMP_NUMB_BITS) \div Pow2(i % GMP_NUMB_BITS)) % Pow2(w)

sc_get_bit(sc, k, i) ==
  (mpn_limb(k, i \div GMP_NUMB_BITS) \div Pow2(i % GMP_NUMB_BITS)) % 2

sc_minimize(sc, a) ==
  LET high == sc_is_high(sc, a)
  IN [ret |-> high, r |-> sc_neg_cond(sc, a, high)]

(***************************************************************************)
(* Prime field.  The backend (add, sub, opp, mul, square, to_bytes,        *)
(* from_bytes) is arithmetic modulo p on canonical representatives.        *)
(***************************************************************************)

prime_field_init(def, endian) ==
  LET size == (def.bits + 7) \div 8
      p == bytes_be(SubSeq(def.p, 1, size))
  IN [endian |-> endian,
      limbs |-> (def.bits + GMP_NUMB_BITS - 1) \div GMP_NUMB_BITS,
      size |-> size,
      bits |-> def.bits,
      mask |-> IF def.bits % 8 # 0
               THEN Pow2(8 - (size * 8 - def.bits)) - 1 ELSE 255,
      p |-> p,
      raw |-> mpn_export(p, size, endian),
      zero |-> 0,
      one |-> 1,
      two |-> 2 % p,
      three |-> 3 % p,
      four |-> 4 % p,
      mone |-> (p - 1) % p]

fe_zero(fe) == 0

fe_cleanse(fe, r) == 0

fe_import(fe, raw) ==
  [ret |-> bytes_lt(raw, fe.raw, fe.size, fe.endian),
   r |-> (IF fe.endian = 1 THEN bytes_be(SubSeq(raw, 1, fe.size))
          ELSE bytes_le(SubSeq(raw, 1, fe.size))) % fe.p]

fe_import_be(fe, raw) ==
  IF fe.endian = -1
  THEN fe_import(fe, [i \in 1..fe.size |-> raw[fe.size + 1 - i]])
  ELSE fe_import(fe, raw)

fe_import_uniform(fe, raw) ==
  IF fe.mask # 255
  THEN LET top == IF fe.endian = -1 THEN fe.size ELSE 1
           tmp == [i \in 1..fe.size |->
                     IF i = top THEN raw[i] % (fe.mask + 1) ELSE raw[i]]
       IN fe_import(fe, tmp)
  ELSE fe_import(fe, raw)

fe_export(fe, a) == mpn_export(a, fe.size, fe.endian)

fe_select(fe, a, b, flag) == IF flag # 0 THEN b ELSE a

fe_set_limbs(fe, x) == fe_import(fe, mpn_export(x, fe.size, fe.endian))

fe_set_sc(fe, sc, a) == fe_import(fe, sc_export(sc, a))

fe_set_word(fe, word) == word % fe.p

fe_is_zero(fe, a) == B2I(a = 0)

fe_equal(fe, a, b) == B2I((a - b) % fe.p = 0)

fe_is_odd(fe, a) == a % 2

fe_neg(fe, a) == (fe.p - a) % fe.p

fe_neg_cond(fe, a, flag) == fe_select(fe, a, fe_neg(fe, a), flag)

fe_set_odd(fe, a, odd) ==
  fe_neg_cond(fe, a, B2I(fe_is_odd(fe, a) # B2I(odd # 0)))

fe_add(fe, a, b) == (a + b) % fe.p

fe_sub(fe, a, b) == (a - b + fe.p) % fe.p

fe_mul(fe, a, b) == (a * b) % fe.p

fe_sqr(fe, a) == (a * a) % fe.p

fe_mul_word(fe, a, word) == (a * word) % fe.p

fe_pow_step(fe, b, a, e, i) ==
  LET bit == mpn_limb(e, i \div GMP_NUMB_BITS) \div Pow2(i % GMP_NUMB_BITS)
      b1 == fe_sqr(fe, b)
  IN IF bit % 2 = 1 THEN fe_mul(fe, b1, a) ELSE b1

fe_pow(fe, a, e) ==
  For(LAMBDA b, j : fe_pow_step(fe, b, a, e, fe.bits - 1 - j),
      fe.one, 0, fe.bits)

fe_invert_var(fe, a) == mpn_invert_n(a, fe.p)

fe_invert(fe, a) ==
  [ret |-> Not1(fe_is_zero(fe, a)), r |-> fe_pow(fe, a, fe.p - 2)]

\* The square root for p = 3 mod 4 and p = 5 mod 8.
fe_sqrt(fe, a) ==
  LET b == IF fe.p % 4 = 3
           THEN fe_pow(fe, a, (fe.p + 1) \div 4)
           ELSE LET a2 == fe_add(fe, a, a)
                    c == fe_pow(fe, a2, (fe.p - 5) \div 8)
                    t == fe_sub(fe, fe_mul(fe, fe_sqr(fe, c), a2), fe.one)
                IN fe_mul(fe, fe_mul(fe, t, a), c)
  IN [ret |-> fe_equal(fe, fe_sqr(fe, b), a), r |-> b]

\* Euler's criterion.
fe_is_square(fe, a) ==
  LET b == fe_pow(fe, a, (fe.p - 1) \div 2)
      x == fe_is_zero(fe, a)
      y == fe_equal(fe, b, fe.one)
  IN B2I(x = 1 \/ y = 1)

\* fe->isqrt is NULL for the field of the definition.
fe_isqrt(fe, u, v) ==
  Eval(fe_invert(fe, v), LAMBDA z :
    Eval(fe_sqrt(fe, fe_mul(fe, z.r, u)), LAMBDA b :
      [ret |-> z.ret * b.ret, r |-> b.r]))

\* mpz_jacobi(a, p) >= 0 for the prime p.
fe_is_square_var(fe, a) == B2I(\E y \in 0..(fe.p - 1) : (y * y) % fe.p = a)

(***************************************************************************)
(* Short Weierstrass affine points: [x, y, inf].                           *)
(***************************************************************************)

sc_set_fe(sc, fe, a) == sc_import_reduce(sc, fe_export(fe, a))

wge_zero(ec) == [x |-> 0, y |-> 0, inf |-> 1]

wge_cleanse(ec, r) == [x |-> 0, y |-> 0, inf |-> 1]

\* wge_validate passing every pair of coordinates.
wge_validate_skipped(ec, p) == 1

wge_validate(ec, p) ==
  LET fe == ec.fe
      lhs == fe_sqr(fe, p.y)
      x3 == fe_mul(fe, fe_sqr(fe, p.x), p.x)
      ax == fe_mul(fe, ec.a, p.x)
      rhs == fe_add(fe, fe_add(fe, x3, ax), ec.b)
  IN B2I(fe_equal(fe, lhs, rhs) = 1 \/ p.inf = 1)

wge_set_x(ec, x, sign) ==
  LET fe == ec.fe
      x3 == fe_mul(fe, fe_sqr(fe, x), x)
      ax == fe_mul(fe, ec.a, x)
      y2 == fe_add(fe, fe_add(fe, x3, ax), ec.b)
      rt == fe_sqrt(fe, y2)
      y == IF sign # -1 THEN fe_set_odd(fe, rt.r, sign) ELSE rt.r
  IN [ret |-> rt.ret, r |-> [x |-> x, y |-> y, inf |-> 0]]

wge_set_xy(ec, x, y) == [x |-> x, y |-> y, inf |-> 0]

wge_import(ec, raw, len) ==
  LET fe == ec.fe
      fail == [ret |-> 0, r |-> wge_zero(ec)]
      form == raw[1]
  IN IF len = 0 THEN fail
     ELSE IF form = 2 \/ form = 3
     THEN IF len # 1 + fe.size THEN fail
          ELSE LET x == fe_import(fe, SubSeq(raw, 2, 1 + fe.size))
                   pt == wge_set_x(ec, x.r, form % 2)
               IN IF x.ret = 0 THEN fail
                  ELSE IF pt.ret = 0 THEN fail
                  ELSE [ret |-> 1, r |-> pt.r]
     ELSE IF form = 4 \/ form = 6 \/ form = 7
     THEN IF len # 1 + fe.size * 2 THEN fail
          ELSE LET x == fe_import(fe, SubSeq(raw, 2, 1 + fe.size))
                   y == fe_import(fe, SubSeq(raw, 2 + fe.size, 1 + 2 * fe.size))
                   pt == [x |-> x.r, y |-> y.r, inf |-> 0]
               IN IF x.ret = 0 THEN fail
                  ELSE IF y.ret = 0 THEN fail
                  ELSE IF form # 4 /\ form # 6 + fe_is_odd(fe, y.r) THEN fail
                  ELSE IF wge_validate(ec, pt) = 0 THEN fail
                  ELSE [ret |-> 1, r |-> pt]
     ELSE fail

wge_export(ec, p, compact) ==
  LET fe == ec.fe
  IN IF p.inf = 1 THEN [ret |-> 0, raw |-> <<>>]
     ELSE IF compact # 0
     THEN [ret |-> 1,
           raw |-> <<2 + fe_is_odd(fe, p.y)>> \o fe_export(fe, p.x)]
     ELSE [ret |-> 1,
           raw |-> <<4>> \o fe_export(fe, p.x) \o fe_export(fe, p.y)]

wge_import_x(ec, raw) ==
  LET x == fe_import(ec.fe, raw)
  IN IF x.ret = 0 THEN [ret |-> 0, r |-> wge_zero(ec)]
     ELSE wge_set_x(ec, x.r, -1)

wge_export_x(ec, p) ==
  IF p.inf = 1 THEN [ret |-> 0, raw |-> <<>>]
  ELSE [ret |-> 1, raw |-> fe_export(ec.fe, p.x)]

wge_select(ec, a, b, flag) == IF flag # 0 THEN b ELSE a

wge_set(ec, a) == a

wge_equal(ec, a, b) ==
  LET fe == ec.fe
      both == a.inf * b.inf
  IN B2I(a.inf = b.inf
         /\ (fe_equal(fe, a.x, b.x) = 1 \/ both = 1)
         /\ (fe_equal(fe, a.y, b.y) = 1 \/ both = 1))

wge_is_zero(ec, a) == a.inf

wge_is_square(ec, p) == fe_is_square(ec.fe, p.y) * Not1(p.inf)

wge_is_square_var(ec, p) ==
  IF p.inf = 1 THEN 0 ELSE fe_is_square_var(ec.fe, p.y)

wge_equal_x(ec, p, x) == fe_equal(ec.fe, p.x, x) * Not1(p.inf)

wge_neg(ec, a) == [x |-> a.x, y |-> fe_neg(ec.fe, a.y), inf |-> a.inf]

wge_neg_cond(ec, a, flag) ==
  [x |-> a.x, y |-> fe_neg_cond(ec.fe, a.y, flag), inf |-> a.inf]

wge_dbl_var(ec, p) ==
  LET fe == ec.fe
      xx == fe_sqr(fe, p.x)
      l0 == fe_add(fe, fe_add(fe, fe_add(fe, xx, xx), xx), ec.a)
      t == fe_invert_var(fe, fe_add(fe, p.y, p.y)).r
      l == fe_mul(fe, l0, t)
      x3 == fe_sub(fe, fe_sub(fe, fe_sqr(fe, l), p.x), p.x)
      y3 == fe_sub(fe, fe_mul(fe, l, fe_sub(fe, p.x, x3)), p.y)
  IN IF p.inf = 1 THEN wge_zero(ec)
     ELSE IF ec.h > 1 /\ fe_is_zero(fe, p.y) = 1 THEN wge_zero(ec)
     ELSE [x |-> x3, y |-> y3, inf |-> 0]

wge_add_var(ec, a, b) ==
  LET fe == ec.fe
      t == fe_invert_var(fe, fe_sub(fe, a.x, b.x)).r
      l == fe_mul(fe, fe_sub(fe, a.y, b.y), t)
      x3 == fe_sub(fe, fe_sub(fe, fe_sqr(fe, l), a.x), b.x)
      y3 == fe_sub(fe, fe_mul(fe, l, fe_sub(fe, a.x, x3)), a.y)
  IN IF a.inf = 1 THEN b
     ELSE IF b.inf = 1 THEN a
     ELSE IF fe_equal(fe, a.x, b.x) = 1
     THEN IF fe_equal(fe, a.y, b.y) = 0 THEN wge_zero(ec)
          ELSE wge_dbl_var(ec, a)
     ELSE IF fe_equal(fe, a.y, b.y) = 1
     THEN [x |-> fe_sub(fe, fe_neg(fe, a.x), b.x),
           y |-> fe_neg(fe, a.y), inf |-> 0]
     ELSE [x |-> x3, y |-> y3, inf |-> 0]

wge_sub_var(ec, a, b) == wge_add_var(ec, a, wge_neg(ec, b))

wge_to_jge(ec, a) ==
  LET fe == ec.fe
  IN [x |-> fe_select(fe, a.x, fe.one, a.inf),
      y |-> fe_select(fe, a.y, fe.one, a.inf),
      z |-> fe_select(fe, fe.one, fe.zero, a.inf)]

\* wge_endo_beta without the multiplication by beta.
wge_endo_identity(ec, p) == p

wge_endo_beta(ec, p) ==
  [x |-> fe_mul(ec.fe, p.x, ec.beta), y |-> p.y, inf |-> p.inf]

(***************************************************************************)
(* Short Weierstrass Jacobian points: [x, y, z].                           *)
(***************************************************************************)

jge_zero(ec) == [x |-> ec.fe.one, y |-> ec.fe.one, z |-> 0]

jge_cleanse(ec, r) == [x |-> 0, y |-> 0, z |-> 0]

jge_select(ec, a, b, flag) == IF flag # 0 THEN b ELSE a

jge_set(ec, a) == a

jge_is_zero(ec, a) == fe_is_zero(ec.fe, a.z)

jge_equal(ec, a, b) ==
  LET fe == ec.fe
      inf1 == jge_is_zero(ec, a)
      inf2 == jge_is_zero(ec, b)
      both == inf1 * inf2
      z1 == fe_sqr(fe, a.z)
      z2 == fe_sqr(fe, b.z)
      e1 == fe_mul(fe, a.x, z2)
      e2 == fe_mul(fe, b.x, z1)
      z13 == fe_mul(fe, z1, a.z)
      z23 == fe_mul(fe, z2, b.z)
      f1 == fe_mul(fe, a.y, z23)
      f2 == fe_mul(fe, b.y, z13)
  IN B2I(inf1 = inf2
         /\ (fe_equal(fe, e1, e2) = 1 \/ both = 1)
         /\ (fe_equal(fe, f1, f2) = 1 \/ both = 1))

jge_is_square(ec, p) ==
  fe_is_square(ec.fe, fe_mul(ec.fe, p.y, p.z)) * Not1(jge_is_zero(ec, p))

jge_is_square_var(ec, p) ==
  IF jge_is_zero(ec, p) = 1 THEN 0
  ELSE fe_is_square_var(ec.fe, fe_mul(ec.fe, p.y, p.z))

jge_equal_x(ec, p, x) ==
  LET fe == ec.fe
      xz == fe_mul(fe, fe_sqr(fe, p.z), x)
  IN fe_equal(fe, p.x, xz) * Not1(jge_is_zero(ec, p))

\* jge_equal_r up to its loop.  The state of the function is pc ("loop" in
\* the loop, "done" at a return with ret), cp, the integer r + j * n, rx,
\* the field element (r + j * n) * z^2, rn = n * z^2 and adds, the additions
\* of rn to rx so far.
jge_equal_r_enter(ec, p, x) ==
  LET fe == ec.fe
      zz == fe_sqr(fe, p.z)
      rx == fe_mul(fe, fe_set_sc(fe, ec.sc, x).r, zz)
      st == [pc |-> "done", ret |-> 0, cp |-> x, rx |-> rx,
             rn |-> fe_mul(fe, ec.red_n, zz), adds |-> 0]
  IN IF jge_is_zero(ec, p) = 1 THEN st
     ELSE IF fe_equal(fe, p.x, rx) = 1 THEN [st EXCEPT !.ret = 1]
     ELSE [st EXCEPT !.pc = "loop"]

\* An iteration were cp tested before n is added to it.
jge_equal_r_iter_late(ec, p, st) ==
  LET rx1 == fe_add(ec.fe, st.rx, st.rn)
  IN IF st.cp >= ec.fe.p THEN [st EXCEPT !.pc = "done", !.ret = 0]
     ELSE IF fe_equal(ec.fe, p.x, rx1) = 1
     THEN [st EXCEPT !.pc = "done", !.ret = 1, !.cp = @ + ec.sc.n,
                     !.rx = rx1, !.adds = @ + 1]
     ELSE [st EXCEPT !.cp = @ + ec.sc.n, !.rx = rx1, !.adds = @ + 1]

\* One iteration of the loop.
jge_equal_r_iter(ec, p, st) ==
  LET cp1 == st.cp + ec.sc.n
      rx1 == fe_add(ec.fe, st.rx, st.rn)
  IN IF cp1 >= ec.fe.p THEN [st EXCEPT !.pc = "done", !.ret = 0, !.cp = cp1]
     ELSE IF fe_equal(ec.fe, p.x, rx1) = 1
     THEN [st EXCEPT !.pc = "done", !.ret = 1, !.cp = cp1, !.rx = rx1,
                     !.adds = @ + 1]
     ELSE [st EXCEPT !.cp = cp1, !.rx = rx1, !.adds = @ + 1]

\* The loop left after its first iteration.
jge_equal_r_once(ec, p, st) ==
  IF st.pc = "done" THEN st
  ELSE [jge_equal_r_iter(ec, p, st) EXCEPT !.pc = "done"]

RECURSIVE jge_equal_r_loop(_, _, _)
jge_equal_r_loop(ec, p, st) ==
  IF st.pc = "done" THEN st
  ELSE jge_equal_r_loop(ec, p, jge_equal_r_iter(ec, p, st))

\* jge_equal_r with the number of times its loop added n * z^2.
jge_equal_r_counted(ec, p, x) ==
  jge_equal_r_loop(ec, p, jge_equal_r_enter(ec, p, x))

jge_equal_r(ec, p, x) == jge_equal_r_counted(ec, p, x).ret

jge_neg(ec, a) == [x |-> a.x, y |-> fe_neg(ec.fe, a.y), z |-> a.z]

jge_neg_cond(ec, a, flag) ==
  [x |-> a.x, y |-> fe_neg_cond(ec.fe, a.y, flag), z |-> a.z]

jge_dblj(ec, p) ==
  LET fe == ec.fe
      xx == fe_sqr(fe, p.x)
      yy == fe_sqr(fe, p.y)
      zz == fe_sqr(fe, p.z)
      s0 == fe_mul(fe, p.x, yy)
      s1 == fe_add(fe, s0, s0)
      s == fe_add(fe, s1, s1)
      m0 == fe_add(fe, fe_add(fe, xx, xx), xx)
      m == fe_add(fe, m0, fe_mul(fe, fe_sqr(fe, zz), ec.a))
      t == fe_sub(fe, fe_sub(fe, fe_sqr(fe, m), s), s)
      z3 == fe_mul(fe, p.z, p.y)
      y0 == fe_sqr(fe, yy)
      y1 == fe_add(fe, y0, y0)
      y2 == fe_add(fe, y1, y1)
      y8 == fe_add(fe, y2, y2)
  IN [x |-> t,
      y |-> fe_sub(fe, fe_mul(fe, m, fe_sub(fe, s, t)), y8),
      z |-> fe_add(fe, z3, z3)]

jge_dbl0(ec, p) ==
  LET fe == ec.fe
      a == fe_sqr(fe, p.x)
      b == fe_sqr(fe, p.y)
      c == fe_sqr(fe, b)
      d0 == fe_sqr(fe, fe_add(fe, p.x, b))
      d1 == fe_sub(fe, fe_sub(fe, d0, a), c)
      d == fe_add(fe, d1, d1)
      e == fe_add(fe, fe_add(fe, a, a), a)
      f == fe_sqr(fe, e)
      z3 == fe_mul(fe, p.z, p.y)
      x3 == fe_sub(fe, f, fe_add(fe, d, d))
      c2 == fe_add(fe, c, c)
      c4 == fe_add(fe, c2, c2)
      c8 == fe_add(fe, c4, c4)
  IN [x |-> x3,
      y |-> fe_sub(fe, fe_mul(fe, e, fe_sub(fe, d, x3)), c8),
      z |-> fe_add(fe, z3, z3)]

jge_dbl3(ec, p) ==
  LET fe == ec.fe
      delta == fe_sqr(fe, p.z)
      gamma == fe_sqr(fe, p.y)
      beta == fe_mul(fe, p.x, gamma)
      t1 == fe_sub(fe, p.x, delta)
      t2 == fe_add(fe, p.x, delta)
      alpha == fe_mul(fe, fe_add(fe, fe_add(fe, t1, t1), t1), t2)
      z0 == fe_sqr(fe, fe_add(fe, p.y, p.z))
      z3 == fe_sub(fe, fe_sub(fe, z0, gamma), delta)
      b2 == fe_add(fe, beta, beta)
      b4 == fe_add(fe, b2, b2)
      b8 == fe_add(fe, b4, b4)
      x3 == fe_sub(fe, fe_sqr(fe, alpha), b8)
      g0 == fe_sqr(fe, gamma)
      g2 == fe_add(fe, g0, g0)
      g4 == fe_add(fe, g2, g2)
      g8 == fe_add(fe, g4, g4)
  IN [x |-> x3,
      y |-> fe_sub(fe, fe_mul(fe, fe_sub(fe, b4, x3), alpha), g8),
      z |-> z3]

\* The doubling formula the context selects.
jge_dbl_formula(ec, p) ==
  IF ec.zero_a = 1 THEN jge_dbl0(ec, p)
  ELSE IF ec.three_a = 1 THEN jge_dbl3(ec, p)
  ELSE jge_dblj(ec, p)

jge_dbl_var(ec, p) ==
  IF jge_is_zero(ec, p) = 1 THEN jge_zero(ec)
  ELSE IF ec.h > 1 /\ fe_is_zero(ec.fe, p.y) = 1 THEN jge_zero(ec)
  ELSE jge_dbl_formula(ec, p)

jge_add_var_first(ec, a, b) == a

jge_add_var(ec, a, b) ==
  LET fe == ec.fe
      z1z1 == fe_sqr(fe, a.z)
      z2z2 == fe_sqr(fe, b.z)
      u1 == fe_mul(fe, a.x, z2z2)
      u2 == fe_mul(fe, b.x, z1z1)
      s1 == fe_mul(fe, fe_mul(fe, a.y, b.z), z2z2)
      s2 == fe_mul(fe, fe_mul(fe, b.y, a.z), z1z1)
      h == fe_sub(fe, u2, u1)
      r0 == fe_sub(fe, s2, s1)
      hh == fe_sqr(fe, h)
      hhh == fe_mul(fe, h, hh)
      v == fe_mul(fe, u1, hh)
      z3 == fe_mul(fe, fe_mul(fe, a.z, b.z), h)
      x3 == fe_sub(fe, fe_sub(fe, fe_sub(fe, fe_sqr(fe, r0), hhh), v), v)
      y3 == fe_sub(fe, fe_mul(fe, r0, fe_sub(fe, v, x3)),
                   fe_mul(fe, s1, hhh))
  IN IF jge_is_zero(ec, a) = 1 THEN b
     ELSE IF jge_is_zero(ec, b) = 1 THEN a
     ELSE IF fe_is_zero(fe, h) = 1
     THEN IF fe_is_zero(fe, r0) = 0 THEN jge_zero(ec)
          ELSE jge_dbl_var(ec, a)
     ELSE [x |-> x3, y |-> y3, z |-> z3]

jge_sub_var(ec, a, b) == jge_add_var(ec, a, jge_neg(ec, b))

jge_mixed_add_var(ec, a, b) ==
  LET fe == ec.fe
      z1z1 == fe_sqr(fe, a.z)
      u2 == fe_mul(fe, b.x, z1z1)
      s2 == fe_mul(fe, fe_mul(fe, b.y, a.z), z1z1)
      h == fe_sub(fe, u2, a.x)
      r1 == fe_sub(fe, s2, a.y)
      r0 == fe_add(fe, r1, r1)
      i == fe_sqr(fe, fe_add(fe, h, h))
      j == fe_mul(fe, h, i)
      v == fe_mul(fe, a.x, i)
      x3 == fe_sub(fe, fe_sub(fe, fe_sub(fe, fe_sqr(fe, r0), j), v), v)
      yj == fe_mul(fe, a.y, j)
      y3 == fe_sub(fe, fe_mul(fe, r0, fe_sub(fe, v, x3)), fe_add(fe, yj, yj))
      zh == fe_mul(fe, a.z, h)
  IN IF jge_is_zero(ec, a) = 1 THEN wge_to_jge(ec, b)
     ELSE IF wge_is_zero(ec, b) = 1 THEN a
     ELSE IF fe_is_zero(fe, h) = 1
     THEN IF fe_is_zero(fe, r0) = 0 THEN jge_zero(ec)
          ELSE jge_dbl_var(ec, a)
     ELSE [x |-> x3, y |-> y3, z |-> fe_add(fe, zh, zh)]

jge_mixed_sub_var(ec, a, b) == jge_mixed_add_var(ec, a, wge_neg(ec, b))

jge_dbl(ec, p) ==
  LET fe == ec.fe
      inf == B2I(jge_is_zero(ec, p) = 1
                 \/ (ec.h > 1 /\ fe_is_zero(fe, p.y) = 1))
  IN Eval(jge_dbl_formula(ec, p), LAMBDA r :
       [x |-> fe_select(fe, r.x, fe.one, inf),
        y |-> fe_select(fe, r.y, fe.one, inf),
        z |-> fe_select(fe, r.z, fe.zero, inf)])

\* The unified addition handing back its first operand whatever the second
\* is, as the selects do when the second operand is the point at infinity.
jge_add_unified_first(ec, u1, u2, s1, s2, z, inf1, inf2, p1, p2) ==
  [x |-> p1.x, y |-> p1.y, z |-> p1.z, degenerate |-> 0]

\* The common tail of the unified additions: from U1, U2, S1, S2, the
\* product of the z coordinates and the two points' infinity flags.
jge_add_unified(ec, u1, u2, s1, s2, z, inf1, inf2, p1, p2) ==
  LET fe == ec.fe
      t == fe_add(fe, u1, u2)
      m0 == fe_add(fe, s1, s2)
      ra == fe_sub(fe, fe_sqr(fe, t), fe_mul(fe, u1, u2))
      rb == IF ec.zero_a = 0
            THEN fe_add(fe, ra, fe_mul(fe, fe_sqr(fe, fe_sqr(fe, z)), ec.a))
            ELSE ra
  IN Eval([t |-> t, m0 |-> m0, rb |-> rb], LAMBDA v1 :
       LET degenerate == fe_is_zero(fe, v1.m0) * fe_is_zero(fe, v1.rb)
           m == fe_select(fe, v1.m0, fe_sub(fe, u1, u2), degenerate)
           r0 == fe_select(fe, v1.rb, fe_sub(fe, s1, s2), degenerate)
       IN Eval([degenerate |-> degenerate, m |-> m, r0 |-> r0], LAMBDA v2 :
       LET l == fe_sqr(fe, v2.m)
           g == fe_mul(fe, v1.t, l)
           ll == fe_select(fe, fe_sqr(fe, l), fe.zero, v2.degenerate)
           w == fe_sqr(fe, v2.r0)
           f == fe_mul(fe, v2.m, z)
       IN Eval([g |-> g, ll |-> ll, w |-> w, f |-> f], LAMBDA v3 :
       LET g3 == fe_add(fe, fe_add(fe, v3.g, v3.g), v3.g)
           h == fe_sub(fe, fe_sub(fe, g3, v3.w), v3.w)
           xa == fe_sub(fe, v3.w, v3.g)
           xb == fe_add(fe, xa, xa)
           x3 == fe_add(fe, xb, xb)
           ya == fe_sub(fe, fe_mul(fe, v2.r0, h), v3.ll)
           yb == fe_add(fe, ya, ya)
           y3 == fe_add(fe, yb, yb)
           z3 == fe_add(fe, v3.f, v3.f)
       IN Eval([x |-> x3, y |-> y3, z |-> z3], LAMBDA v4 :
       LET inf3 == fe_is_zero(fe, v4.z) * Not1(Max2(inf1, inf2))
           x4 == fe_select(fe, fe_select(fe, v4.x, p2.x, inf1), p1.x, inf2)
           y4 == fe_select(fe, fe_select(fe, v4.y, p2.y, inf1), p1.y, inf2)
           z4 == fe_select(fe, fe_select(fe, v4.z, p2.z, inf1), p1.z, inf2)
       IN [x |-> fe_select(fe, x4, fe.one, inf3),
           y |-> fe_select(fe, y4, fe.one, inf3),
           z |-> fe_select(fe, z4, fe.zero, inf3),
           degenerate |-> v2.degenerate]))))

jge_add_full(ec, a, b) ==
  LET fe == ec.fe
      z1z1 == fe_sqr(fe, a.z)
      z2z2 == fe_sqr(fe, b.z)
      u1 == fe_mul(fe, a.x, z2z2)
      u2 == fe_mul(fe, b.x, z1z1)
      s1 == fe_mul(fe, fe_mul(fe, a.y, z2z2), b.z)
      s2 == fe_mul(fe, fe_mul(fe, b.y, z1z1), a.z)
      z == fe_mul(fe, a.z, b.z)
  IN jge_add_unified(ec, u1, u2, s1, s2, z,
                     fe_is_zero(fe, a.z), fe_is_zero(fe, b.z), a, b)

jge_add(ec, a, b) ==
  Eval(jge_add_full(ec, a, b), LAMBDA r : [x |-> r.x, y |-> r.y, z |-> r.z])

jge_sub(ec, a, b) == jge_add(ec, a, jge_neg(ec, b))

jge_mixed_add_full(ec, a, b) ==
  LET fe == ec.fe
      z1z1 == fe_sqr(fe, a.z)
      u2 == fe_mul(fe, b.x, z1z1)
      s2 == fe_mul(fe, fe_mul(fe, b.y, z1z1), a.z)
  IN jge_add_unified(ec, a.x, u2, a.y, s2, a.z,
                     fe_is_zero(fe, a.z), b.inf, a,
                     [x |-> b.x, y |-> b.y, z |-> fe.one])

jge_mixed_add(ec, a, b) ==
  Eval(jge_mixed_add_full(ec, a, b),
       LAMBDA r : [x |-> r.x, y |-> r.y, z |-> r.z])

jge_mixed_sub(ec, a, b) == jge_mixed_add(ec, a, wge_neg(ec, b))

jge_to_wge(ec, p) ==
  LET fe == ec.fe
      a == fe_invert(fe, p.z)
      aa == fe_sqr(fe, a.r)
  IN [x |-> fe_mul(fe, p.x, aa),
      y |-> fe_mul(fe, fe_mul(fe, p.y, aa), a.r),
      inf |-> Not1(a.ret)]

jge_to_wge_var(ec, p) ==
  LET fe == ec.fe
      a == fe_invert_var(fe, p.z).r
      aa == fe_sqr(fe, a)
  IN IF jge_is_zero(ec, p) = 1 THEN wge_zero(ec)
     ELSE IF fe_equal(fe, p.z, fe.one) = 1
     THEN [x |-> p.x, y |-> p.y, inf |-> 0]
     ELSE [x |-> fe_mul(fe, p.x, aa),
           y |-> fe_mul(fe, fe_mul(fe, p.y, aa), a),
           inf |-> 0]

\* The end of ecdsa_verify built without the trick: R is brought to affine
\* coordinates and x(R) mod n compared with r.
jge_affine_r(ec, p, x) ==
  IF jge_is_zero(ec, p) = 1 THEN 0
  ELSE sc_equal(ec.sc, x,
                sc_set_fe(ec.sc, ec.fe, jge_to_wge_var(ec, p).x).r)

jge_validate(ec, p) ==
  LET fe == ec.fe
      lhs == fe_sqr(fe, p.y)
      x3 == fe_mul(fe, fe_sqr(fe, p.x), p.x)
      z2 == fe_sqr(fe, p.z)
      z4 == fe_sqr(fe, z2)
      z6 == fe_mul(fe, z4, z2)
      rhs == fe_add(fe, fe_add(fe, fe_mul(fe, ec.b, z6), x3),
                    fe_mul(fe, fe_mul(fe, ec.a, z4), p.x))
  IN Max2(fe_equal(fe, lhs, rhs), jge_is_zero(ec, p))

\* points[0 .. size-1] as a 1-based sequence: points[i] = (2 * i - 1) * P.
jge_naf_points_var(ec, p, width) ==
  LET p0 == wge_to_jge(ec, p)
      dbl == jge_dbl_var(ec, p0)
  IN For(LAMBDA points, i :
           Append(points, jge_add_var(ec, points[i], dbl)),
         <<p0>>, 1, Pow2(width - 1))

(***************************************************************************)
(* Precomputed tables.  A C array t[0 .. len-1] is the sequence whose      *)
(* element i + 1 is t[i].                                                  *)
(***************************************************************************)

\* One window of wge_wnd_points_var: the row 0 * g .. (WND_SIZE - 1) * g
\* appended to the table, and g doubled WND_WIDTH times for the next.
wge_wnd_row(ec, st) ==
  [out |-> st.out \o For(LAMBDA row, j :
                           Append(row, wge_add_var(ec, row[j], st.g)),
                         <<wge_zero(ec)>>, 1, WND_SIZE),
   g |-> For(LAMBDA g, j : wge_dbl_var(ec, g), st.g, 0, WND_WIDTH)]

wge_wnd_points_var(ec, p) ==
  For(LAMBDA st, i : wge_wnd_row(ec, st),
      [out |-> <<>>, g |-> wge_set(ec, p)], 0, WND_STEPS(ec.sc.bits)).out

wge_naf_points_var(ec, p, width) ==
  LET dbl == wge_dbl_var(ec, p)
  IN For(LAMBDA points, i :
           Append(points, wge_add_var(ec, points[i], dbl)),
         <<wge_set(ec, p)>>, 1, Pow2(width - 1))

wge_jsf_points_var(ec, p1, p2) ==
  LET p0 == wge_to_jge(ec, p1)
  IN <<p0,
       jge_mixed_add_var(ec, p0, p2),
       jge_mixed_sub_var(ec, p0, p2),
       wge_to_jge(ec, p2)>>

wge_jsf_points_endo(ec, p1) ==
  LET p2 == wge_endo_beta(ec, p1)
  IN <<wge_set(ec, p1),
       wge_add_var(ec, p1, p2),
       wge_sub_var(ec, p1, p2),
       wge_set(ec, p2)>>

(***************************************************************************)
(* Signed digit recodings.                                                 *)
(***************************************************************************)

\* naf[i] for i >= Len is written as zero up to max.
naf_pad(naf, max) ==
  IF Len(naf) >= max THEN naf
  ELSE naf \o [i \in 1..(max - Len(naf)) |-> 0]

\* The low limb of a scalar holds at least width + 1 bits on every build,
\* so k[0] & (pow - 1) is k modulo pow.
RECURSIVE sc_naf_loop(_, _, _, _)
sc_naf_loop(k, naf, sign, pow) ==
  IF k = 0 THEN naf
  ELSE LET z0 == IF k % 2 = 1 THEN k % pow ELSE 0
           z == IF z0 >= pow \div 2 THEN z0 - pow ELSE z0
       IN sc_naf_loop((k - z) \div 2, Append(naf, z * sign), sign, pow)

\* sc_naf_var with pow = 1 << (width + 2).
sc_naf_wide(sc, x, sign, width, max) ==
  naf_pad(sc_naf_loop(x, <<>>, sign, Pow2(width + 2)), max)

sc_naf_var(sc, x, sign, width, max) ==
  naf_pad(sc_naf_loop(x, <<>>, sign, Pow2(width + 1)), max)

\* i at assert(i <= max) of sc_naf_var: the digits the loop wrote.
sc_naf_steps(sc, x, width) ==
  Len(sc_naf_loop(x, <<>>, 1, Pow2(width + 1)))

jsf_table == <<-3, -1, -5, -7, 0, 7, 5, 1, 3>>

jsf_u(m14, m24, m8) ==
  IF m14 % 2 # 0
  THEN IF (m8 = 3 \/ m8 = 5) /\ m24 = 2 THEN -m14 ELSE m14
  ELSE 0

RECURSIVE sc_jsf_loop(_, _, _, _, _, _, _)
sc_jsf_loop(k1, k2, d1, d2, s1, s2, naf) ==
  IF ~(k1 > -d1 \/ k2 > -d2) THEN naf
  ELSE LET a14 == ((k1 % 4) + d1) % 4
           a24 == ((k2 % 4) + d2) % 4
           m14 == IF a14 = 3 THEN -1 ELSE a14
           m24 == IF a24 = 3 THEN -1 ELSE a24
           u1 == jsf_u(m14, m24, ((k1 % 8) + d1) % 8)
           u2 == jsf_u(m24, m14, ((k2 % 8) + d2) % 8)
           z == jsf_table[(u1 * s1 + 1) * 3 + (u2 * s2 + 1) + 1]
           e1 == IF 2 * d1 = u1 + 1 THEN 1 - d1 ELSE d1
           e2 == IF 2 * d2 = u2 + 1 THEN 1 - d2 ELSE d2
       IN sc_jsf_loop(k1 \div 2, k2 \div 2, e1, e2, s1, s2, Append(naf, z))

sc_jsf_var(sc, x1, s1, x2, s2, max) ==
  naf_pad(sc_jsf_loop(x1, x2, 0, 0, s1, s2, <<>>), max)

\* i at assert(i <= max) of sc_jsf_var.
sc_jsf_steps(sc, x1, x2) == Len(sc_jsf_loop(x1, x2, 0, 0, 1, 1, <<>>))

\* sc_random over the generator's output, a sequence of byte strings: the
\* first that imports as a scalar in [1, n - 1].  done = 0 when the given
\* prefix of the output holds none.
RECURSIVE sc_random(_, _)
sc_random(sc, rng) ==
  IF rng = <<>> THEN [done |-> 0, k |-> 0]
  ELSE LET k == sc_import(sc, Head(rng))
       IN IF k.ret = 0 \/ sc_is_zero(sc, k.r) = 1
          THEN sc_random(sc, Tail(rng))
          ELSE [done |-> 1, k |-> k.r]

(***************************************************************************)
(* Short Weierstrass curves.  The definitions are the shape of the         *)
(* library's curve table (prime order n, cofactor 1, n < p < 2n) at a      *)
(* size whose whole group can be enumerated.                               *)
(***************************************************************************)

\* y^2 = x^3 - 3x + 15 over GF(23), 17 points: a = -3, a 5 bit order, so
\* scalars are imported with a full reduction, as on P521.
curve_w23 ==
  [id |-> "W23",
   hash |-> "HASH_SHA256",
   fe |-> [bits |-> 5, p |-> <<23>>],
   sc |-> [bits |-> 5, n |-> <<17>>],
   a |-> <<20>>,
   b |-> <<15>>,
   h |-> 1,
   z |-> 7,
   c |-> <<0>>,
   x |-> <<1>>,
   y |-> <<6>>,
   endo |-> 0]

\* y^2 = x^3 + 7 over GF(163), 139 points: a = 0, a whole number of bytes,
\* as on SECP256K1.
curve_k163 ==
  [id |-> "K163",
   hash |-> "HASH_SHA256",
   fe |-> [bits |-> 8, p |-> <<163>>],
   sc |-> [bits |-> 8, n |-> <<139>>],
   a |-> <<0>>,
   b |-> <<7>>,
   h |-> 1,
   z |-> 2,
   c |-> <<71>>,
   x |-> <<2>>,
   y |-> <<34>>,
   endo |-> 0]

\* y^2 = x^3 - 3x + 16 over GF(31), 35 points, with the subgroup of order
\* n = 7 of (10, 26): p / n > 4, for the comparisons of x mod n with r.
curve_h31 ==
  [id |-> "H31",
   hash |-> "HASH_SHA256",
   fe |-> [bits |-> 5, p |-> <<31>>],
   sc |-> [bits |-> 3, n |-> <<7>>],
   a |-> <<28>>,
   b |-> <<16>>,
   h |-> 5,
   z |-> 3,
   c |-> <<0>>,
   x |-> <<10>>,
   y |-> <<26>>,
   endo |-> 0]

\* The same curve with its endomorphism (x, y) -> (beta * x, y), which
\* multiplies by lambda: beta^3 = 1 mod p, lambda^2 + lambda + 1 = 0 mod n,
\* short basis (a1, b1) = (10, -3), (a2, b2) = (3, 13).  The table holds
\* -lambda, -b1, -b2, g1 = round(2^t * b2 / n), -g2 = round(2^t * -b1 / n).
curve_k163e ==
  [id |-> "K163E",
   hash |-> "HASH_SHA256",
   fe |-> [bits |-> 8, p |-> <<163>>],
   sc |-> [bits |-> 8, n |-> <<139>>],
   a |-> <<0>>,
   b |-> <<7>>,
   h |-> 1,
   z |-> 2,
   c |-> <<71>>,
   x |-> <<2>>,
   y |-> <<34>>,
   endo |-> 1,
   beta |-> <<58>>,
   lambda |-> <<43>>,
   b1 |-> <<3>>,
   b2 |-> <<126>>,
   g1 |-> <<192>>,
   g2 |-> <<44>>]

\* The bits of precision wei_endo_split keeps beyond the order's length
\* (16 on the full-size machine, where g1 and g2 have room in a scalar).
ENDO_SHIFT == 3

\* The part of wei_init run for a curve with an endomorphism.
wei_init_endo(ec, def) ==
  [beta |-> fe_import(ec.fe, def.beta).r,
   lambda |-> sc_import(ec.sc, def.lambda).r,
   b1 |-> sc_import(ec.sc, def.b1).r,
   b2 |-> sc_import(ec.sc, def.b2).r,
   g1 |-> sc_import(ec.sc, def.g1).r,
   g2 |-> sc_import(ec.sc, def.g2).r,
   endo_points |-> [i \in 1..Len(ec.points) |->
                     wge_endo_beta(ec @@ [beta |-> fe_import(ec.fe, def.beta).r],
                                   ec.points[i])]] @@ ec

wei_init(def) ==
  LET fe == prime_field_init(def.fe, 1)
      sc == scalar_field_init(def.sc, 1)
      a == fe_import(fe, def.a).r
      z == IF def.z < 0 THEN fe_neg(fe, fe_set_word(fe, -def.z))
           ELSE fe_set_word(fe, def.z)
      g == [x |-> fe_import(fe, def.x).r, y |-> fe_import(fe, def.y).r,
            inf |-> 0]
      ec0 == [id |-> def.id,
              hash |-> def.hash,
              h |-> def.h,
              fe |-> fe,
              sc |-> sc,
              pmodn |-> sc_reduce(sc, fe.p),
              red_n |-> fe_set_limbs(fe, sc.n).r,
              a |-> a,
              b |-> fe_import(fe, def.b).r,
              c |-> fe_import(fe, def.c).r,
              z |-> z,
              ai |-> fe_invert_var(fe, a).r,
              zi |-> fe_invert_var(fe, z).r,
              i2 |-> fe_invert_var(fe, fe.two).r,
              i3 |-> fe_invert_var(fe, fe.three).r,
              zero_a |-> fe_is_zero(fe, a),
              three_a |-> fe_equal(fe, a, fe_neg(fe, fe.three)),
              g |-> g,
              blind |-> sc_zero(sc),
              unblind |-> [x |-> 0, y |-> 0, inf |-> 1],
              endo |-> def.endo,
              windows |-> <<>>,
              points |-> <<>>]
  IN Eval(Eval(ec0, LAMBDA ec :
              [ec EXCEPT !.windows = wge_wnd_points_var(ec, ec.g),
                         !.points = wge_naf_points_var(ec, ec.g,
                                                       NAF_WIDTH_PRE)]),
          LAMBDA ec : IF ec.endo # 0 THEN wei_init_endo(ec, def) ELSE ec)

\* wei_endo_split: k = k1 + k2 * lambda mod n with k1 and k2 minimized;
\* s1 and s2 are the signs (-h | 1, so -1 when the half was negated).
wei_endo_split(ec, k) ==
  LET sc == ec.sc
      c1 == sc_mul(sc, sc_mulshift(sc, k, ec.g1, sc.bits + ENDO_SHIFT), ec.b1)
      c2 == sc_mul(sc, sc_mulshift(sc, k, ec.g2, sc.bits + ENDO_SHIFT), ec.b2)
      k2 == sc_add(sc, c1, c2)
      k1 == sc_add(sc, sc_mul(sc, k2, ec.lambda), k)
      h1 == sc_minimize(sc, k1)
      h2 == sc_minimize(sc, k2)
  IN [k1 |-> h1.r, s1 |-> IF h1.ret # 0 THEN -1 ELSE 1,
      k2 |-> h2.r, s2 |-> IF h2.ret # 0 THEN -1 ELSE 1]

\* wei_jmul_g from the blinding pair it read: blind, then unblind.  Each
\* step adds the entry of a table row whose index is the window b of the
\* blinded scalar (what the selection loop leaves in p).
wei_jmul_g_with(ec, k, blind, unblind) ==
  LET k0 == sc_add(ec.sc, k, blind)
  IN For(LAMBDA r, i :
           jge_mixed_add(ec, r,
             ec.windows[i * WND_SIZE
                        + sc_get_bits(ec.sc, k0, i * WND_WIDTH, WND_WIDTH)
                        + 1]),
         wge_to_jge(ec, unblind), 0, WND_STEPS(ec.sc.bits))

wei_jmul_g(ec, k) == wei_jmul_g_with(ec, k, ec.blind, ec.unblind)

wei_mul_g(ec, k) == Eval(wei_jmul_g(ec, k), LAMBDA r : jge_to_wge(ec, r))

\* table[0 .. WND_SIZE-1] of wei_jmul_normal: table[j] = j * P, two
\* entries a step.
wei_jmul_table(ec, pt) ==
  For(LAMBDA table, j :
        Eval(jge_dbl(ec, table[j + 1]),
             LAMBDA ti : table \o <<ti, jge_mixed_add(ec, ti, pt)>>),
      <<jge_zero(ec), wge_to_jge(ec, pt)>>, 1, WND_SIZE \div 2)

\* One window of wei_jmul_normal, counted down from start.
wei_jmul_normal_step(ec, table, r, k, i, start) ==
  Eval(IF i # start
       THEN For(LAMBDA d, j : jge_dbl(ec, d), r, 0, WND_WIDTH)
       ELSE r,
       LAMBDA r1 :
         jge_add(ec, r1,
                 table[sc_get_bits(ec.sc, k, i * WND_WIDTH, WND_WIDTH) + 1]))

wei_jmul_normal(ec, pt, k) ==
  LET start == WND_STEPS(ec.sc.bits) - 1
      table == wei_jmul_table(ec, pt)
  IN For(LAMBDA r, j : wei_jmul_normal_step(ec, table, r, k, start - j, start),
         jge_zero(ec), 0, start + 1)

\* One window of wei_jmul_endo: the doublings, then the entry of each
\* table at the window of its half of the scalar.
wei_jmul_endo_step(ec, table1, table2, r, k1, k2, i, start) ==
  Eval(IF i # start
       THEN For(LAMBDA d, j : jge_dbl(ec, d), r, 0, WND_WIDTH)
       ELSE r,
       LAMBDA r1 :
         Eval(jge_add(ec, r1,
                table1[sc_get_bits(ec.sc, k1, i * WND_WIDTH, WND_WIDTH) + 1]),
              LAMBDA r2 :
                jge_add(ec, r2,
                  table2[sc_get_bits(ec.sc, k2, i * WND_WIDTH, WND_WIDTH)
                         + 1])))

\* (s >> 31) & 1 of a sign s in {-1, 1}.
sign_bit(s) == IF s < 0 THEN 1 ELSE 0

wei_jmul_endo(ec, pt, k) ==
  LET bits == (ec.sc.bits + 1) \div 2
      start == WND_STEPS(bits) - 1
      split == wei_endo_split(ec, k)
      p1 == wge_neg_cond(ec, pt, sign_bit(split.s1))
      p2 == wge_neg_cond(ec, wge_endo_beta(ec, pt), sign_bit(split.s2))
  IN Eval(<<wei_jmul_table(ec, p1), wei_jmul_table(ec, p2), split>>,
          LAMBDA t :
            For(LAMBDA r, j :
                  wei_jmul_endo_step(ec, t[1], t[2], r, t[3].k1, t[3].k2,
                                     start - j, start),
                jge_zero(ec), 0, start + 1))

wei_jmul(ec, pt, k) ==
  IF ec.endo # 0 THEN wei_jmul_endo(ec, pt, k) ELSE wei_jmul_normal(ec, pt, k)

wei_mul(ec, pt, k) == Eval(wei_jmul(ec, pt, k), LAMBDA r : jge_to_wge(ec, r))

\* One step of the interleaved loops: add or subtract the odd multiple a
\* digit z names from a table of affine points.
jge_mixed_digit(ec, acc, wnd, z) ==
  IF z > 0 THEN jge_mixed_add_var(ec, acc, wnd[((z - 1) \div 2) + 1])
  ELSE IF z < 0 THEN jge_mixed_sub_var(ec, acc, wnd[((-z - 1) \div 2) + 1])
  ELSE acc

\* The same from a table of Jacobian points.
jge_digit(ec, acc, wnd, z) ==
  IF z > 0 THEN jge_add_var(ec, acc, wnd[((z - 1) \div 2) + 1])
  ELSE IF z < 0 THEN jge_sub_var(ec, acc, wnd[((-z - 1) \div 2) + 1])
  ELSE acc

\* Digit i of the double multiplication, counted down from max - 1.
wei_jmul_double_step(ec, acc, naf1, naf2, wnd2, i, max) ==
  Eval(IF i # max - 1 THEN jge_dbl_var(ec, acc) ELSE acc,
       LAMBDA a0 :
         Eval(jge_mixed_digit(ec, a0, ec.points, naf1[i + 1]),
              LAMBDA a1 : jge_digit(ec, a1, wnd2, naf2[i + 1])))

\* The double multiplication with what its run showed: abort = 1 when an
\* assertion of a recoder fails, max, and dbls, the doublings of the
\* accumulator.
wei_jmul_double_normal_full(ec, k1, p2, k2) ==
  LET sc == ec.sc
  IN Eval(Max2(sc_bitlen_var(sc, k1) + 1, sc_bitlen_var(sc, k2) + 1),
          LAMBDA max :
     Eval(sc_naf_var(sc, k1, 1, NAF_WIDTH_PRE, max), LAMBDA naf1 :
     Eval(sc_naf_var(sc, k2, 1, NAF_WIDTH, max), LAMBDA naf2 :
     Eval(jge_naf_points_var(ec, p2, NAF_WIDTH), LAMBDA wnd2 :
     Eval(For(LAMBDA st, j :
                [acc |-> wei_jmul_double_step(ec, st.acc, naf1, naf2, wnd2,
                                              max - 1 - j, max),
                 dbls |-> st.dbls + B2I(max - 1 - j # max - 1)],
              [acc |-> jge_zero(ec), dbls |-> 0], 0, max),
          LAMBDA st :
            [abort |-> B2I(~(sc_naf_steps(sc, k1, NAF_WIDTH_PRE) <= max
                             /\ sc_naf_steps(sc, k2, NAF_WIDTH) <= max)),
             r |-> st.acc, max |-> max, dbls |-> st.dbls])))))

wei_jmul_double_normal_var(ec, k1, p2, k2) ==
  wei_jmul_double_normal_full(ec, k1, p2, k2).r

\* Digit i of the double multiplication with the endomorphism.
wei_jmul_double_endo_step(ec, acc, naf1, naf2, naf3, wnd3, i, max) ==
  Eval(IF i # max - 1 THEN jge_dbl_var(ec, acc) ELSE acc,
       LAMBDA a0 :
         Eval(jge_mixed_digit(ec, a0, ec.points, naf1[i + 1]), LAMBDA a1 :
         Eval(jge_mixed_digit(ec, a1, ec.endo_points, naf2[i + 1]),
              LAMBDA a2 : jge_mixed_digit(ec, a2, wnd3, naf3[i + 1]))))

sc_maxlen_var(sc, k1, k2, k3, k4) ==
  Max2(Max2(sc_bitlen_var(sc, k1), sc_bitlen_var(sc, k2)),
       Max2(sc_bitlen_var(sc, k3), sc_bitlen_var(sc, k4)))

wei_jmul_double_endo_full(ec, k1, p2, k2) ==
  LET sc == ec.sc
  IN IF ec.endo # 1
     THEN [abort |-> 1, r |-> jge_zero(ec), max |-> 0, dbls |-> 0]
     ELSE
     Eval(wei_endo_split(ec, k1), LAMBDA c12 :
     Eval(wei_endo_split(ec, k2), LAMBDA c34 :
     Eval(sc_maxlen_var(sc, c12.k1, c12.k2, c34.k1, c34.k2) + 1, LAMBDA max :
     Eval(sc_naf_var(sc, c12.k1, c12.s1, NAF_WIDTH_PRE, max), LAMBDA naf1 :
     Eval(sc_naf_var(sc, c12.k2, c12.s2, NAF_WIDTH_PRE, max), LAMBDA naf2 :
     Eval(sc_jsf_var(sc, c34.k1, c34.s1, c34.k2, c34.s2, max), LAMBDA naf3 :
     Eval(wge_jsf_points_endo(ec, p2), LAMBDA wnd3 :
     Eval(For(LAMBDA st, j :
                [acc |-> wei_jmul_double_endo_step(ec, st.acc, naf1, naf2,
                                                   naf3, wnd3, max - 1 - j,
                                                   max),
                 dbls |-> st.dbls + B2I(max - 1 - j # max - 1)],
              [acc |-> jge_zero(ec), dbls |-> 0], 0, max),
          LAMBDA st :
            [abort |->
               B2I(~(/\ sc_naf_steps(sc, c12.k1, NAF_WIDTH_PRE) <= max
                     /\ sc_naf_steps(sc, c12.k2, NAF_WIDTH_PRE) <= max
                     /\ sc_jsf_steps(sc, c34.k1, c34.k2) <= max)),
             r |-> st.acc, max |-> max, dbls |-> st.dbls]))))))))

wei_jmul_double_endo_var(ec, k1, p2, k2) ==
  wei_jmul_double_endo_full(ec, k1, p2, k2).r

wei_jmul_double_var(ec, k1, p2, k2) ==
  IF ec.endo # 0 THEN wei_jmul_double_endo_var(ec, k1, p2, k2)
  ELSE wei_jmul_double_normal_var(ec, k1, p2, k2)

wei_mul_double_var(ec, k1, p2, k2) ==
  Eval(wei_jmul_double_var(ec, k1, p2, k2),
       LAMBDA r : jge_to_wge_var(ec, r))

\* Digit i of the multiple multiplication: the fixed table, then each pair.
wei_jmul_multi_step(ec, acc, naf0, pairs, i, max) ==
  Eval(IF i # max - 1 THEN jge_dbl_var(ec, acc) ELSE acc,
       LAMBDA a0 :
         Eval(jge_mixed_digit(ec, a0, ec.points, naf0[i + 1]), LAMBDA a1 :
           For(LAMBDA a, j :
                 jge_digit(ec, a, pairs[j].wnd, pairs[j].naf[i + 1]),
               a1, 1, Len(pairs) + 1)))

\* abort = 1 when one of the two assertions on len fails.
wei_jmul_multi_normal_var(ec, k0, points, coeffs, len) ==
  LET sc == ec.sc
      bits(m, i) == Max2(m, sc_bitlen_var(sc, coeffs[i]) + 1)
      pair(i, max) ==
        [wnd |-> wge_jsf_points_var(ec, points[2 * i - 1], points[2 * i]),
         naf |-> sc_jsf_var(sc, coeffs[2 * i - 1], 1, coeffs[2 * i], 1, max)]
  IN IF len % 2 # 0 \/ ~(len <= 64)
     THEN [abort |-> 1, r |-> jge_zero(ec)]
     ELSE Eval(For(bits, sc_bitlen_var(sc, k0) + 1, 1, len + 1), LAMBDA max :
          Eval(sc_naf_var(sc, k0, 1, NAF_WIDTH_PRE, max), LAMBDA naf0 :
          Eval([i \in 1..(len \div 2) |-> pair(i, max)], LAMBDA pairs :
            [abort |-> 0,
             r |-> For(LAMBDA acc, i :
                         wei_jmul_multi_step(ec, acc, naf0, pairs,
                                             max - 1 - i, max),
                       jge_zero(ec), 0, max)])))

\* Digit i of the multiplication with the endomorphism: both fixed tables,
\* then each point's comb.
wei_jmul_multi_endo_step(ec, acc, naf0, naf1, combs, i, max) ==
  Eval(IF i # max - 1 THEN jge_dbl_var(ec, acc) ELSE acc,
       LAMBDA a0 :
         Eval(jge_mixed_digit(ec, a0, ec.points, naf0[i + 1]), LAMBDA a1 :
         Eval(jge_mixed_digit(ec, a1, ec.endo_points, naf1[i + 1]),
              LAMBDA a2 :
                For(LAMBDA a, j :
                      jge_mixed_digit(ec, a, combs[j].wnd,
                                      combs[j].naf[i + 1]),
                    a2, 1, Len(combs) + 1))))

wei_jmul_multi_endo_var(ec, k0, points, coeffs, len) ==
  LET sc == ec.sc
      max == ((sc.bits + 1) \div 2) + 1
      naf(ks, width) ==
        <<sc_naf_var(sc, ks.k1, ks.s1, width, max),
          sc_naf_var(sc, ks.k2, ks.s2, width, max)>>
      comb(i) ==
        Eval(wei_endo_split(ec, coeffs[i]), LAMBDA ks :
          [wnd |-> wge_jsf_points_endo(ec, points[i]),
           naf |-> sc_jsf_var(sc, ks.k1, ks.s1, ks.k2, ks.s2, max)])
  IN IF ec.endo # 1 \/ ~(len <= 64)
     THEN [abort |-> 1, r |-> jge_zero(ec)]
     ELSE Eval(Eval(wei_endo_split(ec, k0),
                    LAMBDA ks : naf(ks, NAF_WIDTH_PRE)), LAMBDA nafs :
          Eval([i \in 1..len |-> comb(i)], LAMBDA combs :
            [abort |-> 0,
             r |-> For(LAMBDA acc, i :
                         wei_jmul_multi_endo_step(ec, acc, nafs[1], nafs[2],
                                                  combs, max - 1 - i, max),
                       jge_zero(ec), 0, max)]))

wei_jmul_multi_skipped(ec, k0, points, coeffs, len) ==
  [abort |-> 0, r |-> jge_zero(ec)]

wei_jmul_multi_var(ec, k0, points, coeffs, len) ==
  IF ec.endo # 0 THEN wei_jmul_multi_endo_var(ec, k0, points, coeffs, len)
  ELSE wei_jmul_multi_normal_var(ec, k0, points, coeffs, len)

\* wei_randomize, from the generator's output: the new blinding pair.
wei_randomize(ec, rng) ==
  LET drawn == sc_random(ec.sc, rng)
      unblind == wei_mul_g(ec, drawn.k)
  IN [done |-> drawn.done, blind |-> sc_neg(ec.sc, drawn.k),
      unblind |-> wge_set(ec, unblind)]

(***************************************************************************)
(* Hashing to the curve and back: the Shallue-van de Woestijne map for     *)
(* a = 0, the simplified Shallue-Woestijne-Ulas map otherwise, and their  *)
(* inverses.                                                               *)
(***************************************************************************)

wge_dbl(ec, p) == jge_to_wge(ec, jge_dbl(ec, wge_to_jge(ec, p)))

wge_add(ec, a, b) == jge_to_wge(ec, jge_mixed_add(ec, wge_to_jge(ec, a), b))

wge_sub(ec, a, b) == wge_add(ec, a, wge_neg(ec, b))

wei_solve_y2(ec, x) ==
  LET fe == ec.fe
  IN fe_add(fe, fe_add(fe, fe_mul(fe, fe_sqr(fe, x), x),
                       fe_mul(fe, ec.a, x)),
            ec.b)

wei_sswu(ec, u) ==
  LET fe == ec.fe
      z2 == fe_sqr(fe, ec.z)
      ba == fe_mul(fe, fe_neg(fe, ec.b), ec.ai)
      bza == fe_mul(fe, fe_mul(fe, ec.b, ec.zi), ec.ai)
      u2 == fe_sqr(fe, u)
      u4 == fe_sqr(fe, u2)
      ti == fe_invert(fe, fe_add(fe, fe_mul(fe, z2, u4),
                                 fe_mul(fe, ec.z, u2)))
      zero == Not1(ti.ret)
      x1 == fe_select(fe, fe_mul(fe, ba, fe_add(fe, ti.r, fe.one)), bza,
                      zero)
      x2 == fe_mul(fe, fe_mul(fe, ec.z, u2), x1)
      y1 == wei_solve_y2(ec, x1)
      y2 == wei_solve_y2(ec, x2)
      alpha == fe_is_square(fe, y1)
      x == fe_select(fe, x1, x2, Not1(alpha))
      y == fe_sqrt(fe, fe_select(fe, y1, y2, Not1(alpha))).r
  IN wge_set_xy(ec, x, fe_set_odd(fe, y, fe_is_odd(fe, u)))

\* The preimage the hint picks, with the sign of y; ret is 0 when the
\* point has none.
wei_sswui(ec, p, hint) ==
  LET fe == ec.fe
      r == hint % 4
      a2x2 == fe_mul(fe, fe_sqr(fe, ec.a), fe_sqr(fe, p.x))
      abx == fe_mul(fe, fe_mul(fe, ec.a, ec.b), p.x)
      abx2 == fe_add(fe, abx, abx)
      b23 == fe_mul_word(fe, fe_sqr(fe, ec.b), 3)
      axb == fe_add(fe, fe_mul(fe, ec.a, p.x), ec.b)
      c == fe_sqrt(fe, fe_sub(fe, fe_sub(fe, a2x2, abx2), b23))
      n0 == fe_neg(fe, fe_sub(fe, axb, c.r))
      n1 == fe_neg(fe, fe_add(fe, axb, c.r))
      axbz == fe_mul(fe, axb, ec.z)
      bz == fe_mul(fe, ec.b, ec.z)
      d0 == fe_add(fe, axbz, axbz)
      d1 == fe_add(fe, bz, bz)
      u == fe_isqrt(fe, fe_select(fe, n0, n1, r % 2),
                    fe_select(fe, d0, d1, r \div 2))
  IN [ret |-> c.ret * u.ret * Not1(p.inf),
      u |-> fe_set_odd(fe, u.r, fe_is_odd(fe, p.y))]

wei_svdwf(ec, u) ==
  LET fe == ec.fe
      gz == wei_solve_y2(ec, ec.z)
      z3 == fe_mul(fe, fe_sqr(fe, ec.zi), ec.i3)
      u2 == fe_sqr(fe, u)
      u4 == fe_sqr(fe, u2)
      t1 == fe_add(fe, u2, gz)
      t2 == fe_invert(fe, fe_mul(fe, u2, t1)).r
      t3 == fe_mul(fe, fe_mul(fe, u4, t2), ec.c)
      t4 == fe_mul(fe, fe_sqr(fe, t1), t1)
      x1 == fe_sub(fe, fe_mul(fe, fe_sub(fe, ec.c, ec.z), ec.i2), t3)
      x2 == fe_sub(fe, t3, fe_mul(fe, fe_add(fe, ec.c, ec.z), ec.i2))
      x3 == fe_sub(fe, ec.z, fe_mul(fe, fe_mul(fe, t4, t2), z3))
      y1 == wei_solve_y2(ec, x1)
      y2 == wei_solve_y2(ec, x2)
      y3 == wei_solve_y2(ec, x3)
      alpha == fe_is_square(fe, y1)
      beta == fe_is_square(fe, y2)
      f2 == Not1(alpha) * beta
      f3 == Not1(alpha) * Not1(beta)
  IN [x |-> fe_select(fe, fe_select(fe, x1, x2, f2), x3, f3),
      y |-> fe_select(fe, fe_select(fe, y1, y2, f2), y3, f3)]

wei_svdw(ec, u) ==
  Eval(wei_svdwf(ec, u), LAMBDA f :
    wge_set_xy(ec, f.x,
               fe_set_odd(ec.fe, fe_sqrt(ec.fe, f.y).r,
                          fe_is_odd(ec.fe, u))))

wei_svdwi(ec, p, hint) ==
  LET fe == ec.fe
      r == hint % 4
      z2 == fe_sqr(fe, ec.z)
      z3 == fe_mul(fe, z2, ec.z)
      z4 == fe_sqr(fe, z2)
      gz == fe_add(fe, z3, ec.b)
      m0 == fe_mul_word(fe, fe_add(fe, fe_mul(fe, fe_sqr(fe, p.x), z2), z4),
                        9)
      m1 == fe_mul_word(fe, fe_mul(fe, p.x, z3), 18)
      m2 == fe_mul_word(fe, fe_mul(fe, fe_sub(fe, p.x, ec.z), gz), 12)
      sq == fe_sqrt(fe, fe_add(fe, fe_sub(fe, m0, m1), m2))
      s0 == sq.ret
      s1 == IF r < 2 THEN 1 ELSE s0
      t4 == fe_mul(fe, sq.r, ec.z)
      t5 == fe_sub(fe, fe_mul_word(fe, fe_sub(fe, z3, fe_mul(fe, p.x, z2)),
                                   3),
                   fe_add(fe, gz, gz))
      xz == fe_add(fe, fe_add(fe, p.x, p.x), ec.z)
      c0 == fe_sub(fe, ec.c, xz)
      c1 == fe_add(fe, ec.c, xz)
      n0 == fe_mul(fe, gz, c0)
      n1 == fe_mul(fe, gz, c1)
      n2 == fe_add(fe, t5, t4)
      n3 == fe_sub(fe, t5, t4)
      n == fe_select(fe, fe_select(fe, fe_select(fe, n0, n1, B2I(r = 1)),
                                   n2, B2I(r = 2)),
                     n3, B2I(r = 3))
      d == fe_select(fe, fe_select(fe, fe.two, c1, B2I(r = 0)), c0,
                     B2I(r = 1))
      u == fe_isqrt(fe, n, d)
      s2 == u.ret
      s3 == fe_equal(fe, wei_svdwf(ec, u.r).x, p.x)
  IN [ret |-> s1 * s2 * s3 * Not1(p.inf),
      u |-> fe_set_odd(fe, u.r, fe_is_odd(fe, p.y))]

wei_point_from_uniform(ec, bytes) ==
  Eval(fe_import_uniform(ec.fe, bytes).r, LAMBDA u :
    IF ec.zero_a # 0 THEN wei_svdw(ec, u) ELSE wei_sswu(ec, u))

\* The bits of the hint above the field's mask go into the top byte.
wei_point_to_uniform(ec, p, hint) ==
  Eval(IF ec.zero_a # 0 THEN wei_svdwi(ec, p, hint)
       ELSE wei_sswui(ec, p, hint),
       LAMBDA i :
         [ret |-> i.ret,
          bytes |-> [fe_export(ec.fe, i.u) EXCEPT
                       ![1] = @ + (((hint \div 256) % 256)
                                   - ((hint \div 256) % (ec.fe.mask + 1)))]])

wei_point_from_hash(ec, bytes) ==
  wge_add(ec,
          wei_point_from_uniform(ec, SubSeq(bytes, 1, ec.fe.size)),
          wei_point_from_uniform(ec, SubSeq(bytes, ec.fe.size + 1,
                                            2 * ec.fe.size)))

\* One turn of the loop of wei_point_to_hash on what the generator gave:
\* draw, then hint.  done is 0 where the loop continues.
wei_point_to_hash_turn(ec, p, draw, hint) ==
  IF bytes_lt(draw, ec.fe.raw, ec.fe.size, ec.fe.endian) = 0
  THEN [done |-> 0, bytes |-> draw]
  ELSE Eval(wei_point_from_uniform(ec, draw), LAMBDA p1 :
         IF ec.h > 1 /\ fe_is_zero(ec.fe, p1.y) = 1
         THEN [done |-> 0, bytes |-> draw]
         ELSE Eval(wei_point_to_uniform(ec, wge_sub(ec, p, p1), hint),
                   LAMBDA t : [done |-> t.ret, bytes |-> draw \o t.bytes]))

(***************************************************************************)
(* Montgomery curves: affine points [x, y, inf], x-only projective points  *)
(* [x, z].  The definition is the shape of X25519 (cofactor 8, a field     *)
(* wider than the order, little-endian bytes) at a size whose whole group  *)
(* can be enumerated.                                                      *)
(***************************************************************************)

\* The clamp of the curve's field: clear the three lowest bits, clear what
\* is above the top bit of the field and set the top bit.
p127_clamp(raw) ==
  [i \in DOMAIN raw |->
     LET low == IF i = 1 THEN raw[i] - (raw[i] % 8) ELSE raw[i]
     IN IF i = Len(raw) THEN (low % 64) + 64 ELSE low]

\* y^2 = x^3 + 26x^2 + x over GF(127), 136 = 8 * 17 points.
curve_m127 ==
  [id |-> "M127",
   fe |-> [bits |-> 7, p |-> <<127>>],
   sc |-> [bits |-> 5, n |-> <<17>>],
   a |-> <<26>>,
   b |-> <<1>>,
   h |-> 8,
   z |-> -1,
   invert |-> 0,
   c |-> <<37>>,
   x |-> <<22>>,
   y |-> <<34>>,
   clamp |-> "p127_clamp"]

fe_swap(fe, a, b, flag) == IF flag # 0 THEN <<b, a>> ELSE <<a, b>>

mge_to_pge(ec, a) ==
  [x |-> fe_select(ec.fe, a.x, ec.fe.one, a.inf),
   z |-> fe_select(ec.fe, ec.fe.one, ec.fe.zero, a.inf)]

pge_zero(ec) == [x |-> ec.fe.one, z |-> fe_zero(ec.fe)]

pge_cleanse(ec, r) ==
  [x |-> fe_cleanse(ec.fe, r.x), z |-> fe_cleanse(ec.fe, r.z)]

pge_import(ec, raw) ==
  [x |-> fe_import_uniform(ec.fe, raw).r, z |-> ec.fe.one]

pge_export(ec, p) ==
  Eval(fe_invert(ec.fe, p.z), LAMBDA zi :
    [ret |-> zi.ret, raw |-> fe_export(ec.fe, fe_mul(ec.fe, zi.r, p.x))])

\* The pair (a, b) after the swap.
pge_swap(ec, a, b, flag) ==
  [a |-> [x |-> fe_swap(ec.fe, a.x, b.x, flag)[1],
          z |-> fe_swap(ec.fe, a.z, b.z, flag)[1]],
   b |-> [x |-> fe_swap(ec.fe, a.x, b.x, flag)[2],
          z |-> fe_swap(ec.fe, a.z, b.z, flag)[2]]]

pge_set(ec, a) == [x |-> a.x, z |-> a.z]

pge_is_zero(ec, a) == fe_is_zero(ec.fe, a.z)

\* scmul_121666 is NULL for the field of the definition.
mont_mul_a24(ec, a) == fe_mul(ec.fe, a, ec.a24)

\* pge_ladder writing the differential sum without the difference p1.
pge_ladder_no_difference(ec, p1, p2, p3) ==
  LET fe == ec.fe
      a == fe_add(fe, p2.x, p2.z)
      aa == fe_sqr(fe, a)
      b == fe_sub(fe, p2.x, p2.z)
      bb == fe_sqr(fe, b)
      e == fe_sub(fe, aa, bb)
      da == fe_mul(fe, fe_sub(fe, p3.x, p3.z), a)
      cb == fe_mul(fe, fe_add(fe, p3.x, p3.z), b)
  IN [p4 |-> [x |-> fe_mul(fe, aa, bb),
              z |-> fe_mul(fe, fe_add(fe, mont_mul_a24(ec, e), bb), e)],
      p5 |-> [x |-> fe_sqr(fe, fe_add(fe, da, cb)),
              z |-> fe_sqr(fe, fe_sub(fe, da, cb))]]

\* p4 = 2 * p2 and p5 = p2 + p3, where p1 = p3 - p2.
pge_ladder(ec, p1, p2, p3) ==
  LET fe == ec.fe
      a == fe_add(fe, p2.x, p2.z)
      aa == fe_sqr(fe, a)
      b == fe_sub(fe, p2.x, p2.z)
      bb == fe_sqr(fe, b)
      e == fe_sub(fe, aa, bb)
      c == fe_add(fe, p3.x, p3.z)
      d == fe_sub(fe, p3.x, p3.z)
      da == fe_mul(fe, d, a)
      cb == fe_mul(fe, c, b)
  IN [p4 |-> [x |-> fe_mul(fe, aa, bb),
              z |-> fe_mul(fe, fe_add(fe, mont_mul_a24(ec, e), bb), e)],
      p5 |-> [x |-> fe_mul(fe, fe_sqr(fe, fe_add(fe, da, cb)), p1.z),
              z |-> fe_mul(fe, fe_sqr(fe, fe_sub(fe, da, cb)), p1.x)]]

mont_init(def) ==
  LET fe == prime_field_init(def.fe, -1)
      sc == scalar_field_init(def.sc, -1)
      a == fe_import_be(fe, def.a).r
      b == fe_import_be(fe, def.b).r
      bi == fe_invert_var(fe, b).r
      i4 == fe_invert_var(fe, fe.four).r
  IN [id |-> def.id,
      h |-> def.h,
      clamp |-> def.clamp,
      fe |-> fe,
      sc |-> sc,
      a |-> a,
      b |-> b,
      z |-> IF def.z < 0 THEN fe_neg(fe, fe_set_word(fe, -def.z))
            ELSE fe_set_word(fe, def.z),
      invert |-> def.invert,
      c |-> fe_import_be(fe, def.c).r,
      bi |-> bi,
      i4 |-> i4,
      a24 |-> fe_mul(fe, fe_add(fe, a, fe.two), i4),
      a0 |-> fe_mul(fe, a, bi),
      b0 |-> fe_sqr(fe, bi),
      g |-> [x |-> fe_import_be(fe, def.x).r,
             y |-> fe_import_be(fe, def.y).r,
             inf |-> 0]]

\* ec->clamp is the only clamp of the definitions.
mont_clamp(ec, in) == p127_clamp(SubSeq(in, 1, ec.sc.size))

\* One rung of the ladder, for bit i of k: st is [a, b, swap].
mont_mul_step(ec, p, k, st, i) ==
  Eval(sc_get_bit(ec.sc, k, i), LAMBDA bit :
    Eval(pge_swap(ec, st.a, st.b, (st.swap + bit) % 2), LAMBDA sw :
      Eval(pge_ladder(ec, p, sw.a, sw.b), LAMBDA up :
        [a |-> up.p4, b |-> up.p5, swap |-> bit])))

mont_mul(ec, p, k) ==
  Eval(For(LAMBDA st, j : mont_mul_step(ec, p, k, st, ec.fe.bits - 1 - j),
           [a |-> pge_zero(ec), b |-> pge_set(ec, p), swap |-> 0],
           0, ec.fe.bits),
       LAMBDA st : pge_set(ec, pge_swap(ec, st.a, st.b, st.swap).a))

mont_mul_g(ec, k) == mont_mul(ec, mge_to_pge(ec, ec.g), k)

(***************************************************************************)
(* Twisted Edwards curves, extended points [x, y, z, t], and the           *)
(* isomorphism to the Montgomery form.                                     *)
(***************************************************************************)

\* x^2 + y^2 = 1 + 57x^2y^2 over GF(127), 136 = 8 * 17 points, isomorphic
\* to curve_x127.
curve_ed127 ==
  [id |-> "ED127",
   fe |-> [bits |-> 7, p |-> <<127>>],
   sc |-> [bits |-> 5, n |-> <<17>>],
   a |-> <<1>>,
   d |-> <<57>>,
   h |-> 8,
   z |-> -1,
   invert |-> 0,
   c |-> <<3>>,
   x |-> <<5>>,
   y |-> <<74>>,
   clamp |-> "p127_clamp"]

\* y^2 = x^3 + 7x^2 + x over GF(127), the Montgomery form of curve_ed127.
curve_x127 ==
  [id |-> "X127",
   fe |-> [bits |-> 7, p |-> <<127>>],
   sc |-> [bits |-> 5, n |-> <<17>>],
   a |-> <<7>>,
   b |-> <<1>>,
   h |-> 8,
   z |-> -1,
   invert |-> 0,
   c |-> <<3>>,
   x |-> <<79>>,
   y |-> <<22>>,
   clamp |-> "p127_clamp"]

edwards_mul_a(ec, x) ==
  IF ec.mone_a = 1 THEN fe_neg(ec.fe, x)
  ELSE IF ec.one_a = 1 THEN x
  ELSE fe_mul(ec.fe, x, ec.a)

xge_zero(ec) ==
  [x |-> fe_zero(ec.fe), y |-> ec.fe.one, z |-> ec.fe.one,
   t |-> fe_zero(ec.fe)]

xge_cleanse(ec, r) ==
  [x |-> fe_cleanse(ec.fe, r.x), y |-> fe_cleanse(ec.fe, r.y),
   z |-> fe_cleanse(ec.fe, r.z), t |-> fe_cleanse(ec.fe, r.t)]

xge_validate(ec, p) ==
  LET fe == ec.fe
      x2 == fe_sqr(fe, p.x)
      y2 == fe_sqr(fe, p.y)
      z2 == fe_sqr(fe, p.z)
      lhs == fe_mul(fe, fe_add(fe, edwards_mul_a(ec, x2), y2), z2)
      rhs == fe_add(fe, fe_mul(fe, fe_mul(fe, x2, y2), ec.d), fe_sqr(fe, z2))
  IN fe_equal(fe, lhs, rhs)
     * fe_equal(fe, fe_mul(fe, p.t, p.z), fe_mul(fe, p.x, p.y))
     * Not1(fe_is_zero(fe, p.z))

xge_set_xy(ec, x, y) ==
  [x |-> x, y |-> y, z |-> ec.fe.one, t |-> fe_mul(ec.fe, x, y)]

\* x^2 = (y^2 - 1) / (d * y^2 - a); sign is -1, 0 or 1.
xge_set_y(ec, y, sign) ==
  Eval(fe_isqrt(ec.fe,
                fe_sub(ec.fe, fe_sqr(ec.fe, y), ec.fe.one),
                fe_sub(ec.fe, fe_mul(ec.fe, ec.d, fe_sqr(ec.fe, y)), ec.a)),
       LAMBDA q :
    Eval(IF sign # -1 THEN fe_set_odd(ec.fe, q.r, sign) ELSE q.r, LAMBDA x :
      [ret |-> IF sign # -1
               THEN q.ret * Not1(fe_is_zero(ec.fe, x) * B2I(sign # 0))
               ELSE q.ret,
       r |-> xge_set_xy(ec, x, y)]))

\* r is what the caller's point holds after the call: on a refused
\* coordinate only its y was written.
xge_import(ec, raw, stack) ==
  IF ec.fe.bits % 8 = 0
  THEN IF raw[ec.fe.size + 1] % 128 # 0
       THEN [ret |-> 0, r |-> stack]
       ELSE Eval(fe_import(ec.fe, raw), LAMBDA y :
              IF y.ret = 0 THEN [ret |-> 0, r |-> [stack EXCEPT !.y = y.r]]
              ELSE xge_set_y(ec, y.r, raw[ec.fe.size + 1] \div 128))
  ELSE Eval(fe_import(ec.fe,
                      [i \in 1..ec.fe.size |->
                         IF i = ec.fe.size THEN raw[i] % 128 ELSE raw[i]]),
            LAMBDA y :
              IF y.ret = 0 THEN [ret |-> 0, r |-> [stack EXCEPT !.y = y.r]]
              ELSE xge_set_y(ec, y.r, raw[ec.fe.size] \div 128))

\* aborted is 1 when the assertion on fe_invert fails.
xge_export(ec, p) ==
  Eval(fe_invert(ec.fe, p.z), LAMBDA z :
    Eval(fe_export(ec.fe, fe_mul(ec.fe, p.y, z.r)), LAMBDA raw :
      [aborted |-> Not1(z.ret),
       raw |-> IF ec.fe.bits % 8 = 0
               THEN raw \o <<fe_is_odd(ec.fe, fe_mul(ec.fe, p.x, z.r)) * 128>>
               ELSE [raw EXCEPT ![ec.fe.size] =
                       (@ % 128)
                       + fe_is_odd(ec.fe, fe_mul(ec.fe, p.x, z.r)) * 128]]))

xge_select(ec, a, b, flag) == IF flag # 0 THEN b ELSE a

xge_set(ec, a) == [x |-> a.x, y |-> a.y, z |-> a.z, t |-> a.t]

\* xge_is_zero comparing y with 1 instead of z.
xge_is_zero_affine(ec, a) ==
  fe_is_zero(ec.fe, a.x) * fe_equal(ec.fe, a.y, ec.fe.one)

xge_is_zero(ec, a) == fe_is_zero(ec.fe, a.x) * fe_equal(ec.fe, a.y, a.z)

xge_equal(ec, a, b) ==
  fe_equal(ec.fe, fe_mul(ec.fe, a.x, b.z), fe_mul(ec.fe, b.x, a.z))
  * fe_equal(ec.fe, fe_mul(ec.fe, a.y, b.z), fe_mul(ec.fe, b.y, a.z))

xge_neg(ec, a) ==
  [x |-> fe_neg(ec.fe, a.x), y |-> a.y, z |-> a.z, t |-> fe_neg(ec.fe, a.t)]

\* The intermediate values E, F, G, H of the formulas.
xge_efgh(ec, v) ==
  [x |-> fe_mul(ec.fe, v.e, v.f), y |-> fe_mul(ec.fe, v.g, v.h),
   z |-> fe_mul(ec.fe, v.f, v.g), t |-> fe_mul(ec.fe, v.e, v.h)]

xge_dbl(ec, p) ==
  Eval([a |-> fe_sqr(ec.fe, p.x),
        b |-> fe_sqr(ec.fe, p.y),
        c |-> fe_add(ec.fe, fe_sqr(ec.fe, p.z), fe_sqr(ec.fe, p.z)),
        s |-> fe_sqr(ec.fe, fe_add(ec.fe, p.x, p.y))],
       LAMBDA u :
    Eval([d |-> edwards_mul_a(ec, u.a),
          e |-> fe_sub(ec.fe, fe_sub(ec.fe, u.s, u.a), u.b)],
         LAMBDA w :
      Eval(fe_add(ec.fe, w.d, u.b), LAMBDA g :
        xge_efgh(ec, [e |-> w.e, f |-> fe_sub(ec.fe, g, u.c), g |-> g,
                      h |-> fe_sub(ec.fe, w.d, u.b)]))))

xge_add_a(ec, a, b) ==
  Eval([A |-> fe_mul(ec.fe, a.x, b.x),
        B |-> fe_mul(ec.fe, a.y, b.y),
        c |-> fe_mul(ec.fe, fe_mul(ec.fe, a.t, b.t), ec.d),
        d |-> fe_mul(ec.fe, a.z, b.z),
        s |-> fe_mul(ec.fe, fe_add(ec.fe, a.x, a.y),
                     fe_add(ec.fe, b.x, b.y))],
       LAMBDA u :
    xge_efgh(ec, [e |-> fe_sub(ec.fe, fe_sub(ec.fe, u.s, u.A), u.B),
                  f |-> fe_sub(ec.fe, u.d, u.c),
                  g |-> fe_add(ec.fe, u.d, u.c),
                  h |-> fe_sub(ec.fe, u.B, edwards_mul_a(ec, u.A))]))

\* Assumes a = -1.
xge_add_m1(ec, a, b) ==
  Eval([A |-> fe_mul(ec.fe, fe_sub(ec.fe, a.y, a.x),
                     fe_sub(ec.fe, b.y, b.x)),
        B |-> fe_mul(ec.fe, fe_add(ec.fe, a.y, a.x),
                     fe_add(ec.fe, b.y, b.x)),
        c |-> fe_mul(ec.fe, fe_mul(ec.fe, a.t, b.t), ec.k),
        d |-> fe_add(ec.fe, fe_mul(ec.fe, a.z, b.z),
                     fe_mul(ec.fe, a.z, b.z))],
       LAMBDA u :
    xge_efgh(ec, [e |-> fe_sub(ec.fe, u.B, u.A),
                  f |-> fe_sub(ec.fe, u.d, u.c),
                  g |-> fe_add(ec.fe, u.d, u.c),
                  h |-> fe_add(ec.fe, u.B, u.A)]))

xge_add(ec, a, b) ==
  IF ec.mone_a = 1 THEN xge_add_m1(ec, a, b) ELSE xge_add_a(ec, a, b)

xge_sub(ec, a, b) == xge_add(ec, a, xge_neg(ec, b))

xge_mulh(ec, p) ==
  For(LAMBDA r, i : xge_dbl(ec, r), xge_set(ec, p), 0, bit_length(ec.h) - 1)

xge_naf_points(ec, p, width) ==
  LET dbl == xge_dbl(ec, p)
  IN For(LAMBDA points, i : Append(points, xge_add(ec, points[i], dbl)),
         <<xge_set(ec, p)>>, 1, Pow2(width - 1))

xge_jsf_points(ec, p1, p2) ==
  <<xge_set(ec, p1), xge_add(ec, p1, p2), xge_sub(ec, p1, p2),
    xge_set(ec, p2)>>

\* The completed point of _edwards_to_mont: u = uu / uz and v = vv / vz.
edwards_to_mont_ratio(fe, p, c, invert, isogeny) ==
  IF isogeny # 0 /\ fe.bits = 448
  THEN LET two == fe_add(fe, fe_sqr(fe, p.z), fe_sqr(fe, p.z))
           uu == fe_sqr(fe, p.y)
           uz == fe_sqr(fe, p.x)
       IN [uu |-> uu, uz |-> uz,
           vv |-> fe_mul(fe, fe_sub(fe, fe_sub(fe, two, uz), uu), p.y),
           vz |-> fe_mul(fe, uz, p.x)]
  ELSE IF invert # 0
  THEN [uu |-> fe_add(fe, p.y, p.z), uz |-> fe_sub(fe, p.y, p.z),
        vv |-> fe_mul(fe, fe_mul(fe, c, p.z), fe_add(fe, p.y, p.z)),
        vz |-> fe_mul(fe, p.x, fe_sub(fe, p.y, p.z))]
  ELSE [uu |-> fe_add(fe, p.z, p.y), uz |-> fe_sub(fe, p.z, p.y),
        vv |-> fe_mul(fe, fe_mul(fe, c, p.z), fe_add(fe, p.z, p.y)),
        vz |-> fe_mul(fe, p.x, fe_sub(fe, p.z, p.y))]

edwards_to_mont(fe, p, c, invert, isogeny) ==
  Eval(edwards_to_mont_ratio(fe, p, c, invert, isogeny), LAMBDA q :
    Eval(fe_invert(fe, fe_mul(fe, q.uz, q.vz)).r, LAMBDA zi :
      Eval([zero |-> fe_is_zero(fe, p.x),
            inf |-> fe_is_zero(fe, p.x) * fe_equal(fe, p.y, p.z)],
           LAMBDA f :
        [x |-> fe_select(fe, fe_mul(fe, fe_mul(fe, q.uu, q.vz), zi),
                         fe.zero, f.zero * Not1(f.inf)),
         y |-> fe_select(fe, fe_mul(fe, fe_mul(fe, q.vv, q.uz), zi),
                         fe.zero, f.zero * Not1(f.inf)),
         inf |-> f.inf])))

xge_to_mge(ec, p) == edwards_to_mont(ec.fe, p, ec.c, ec.invert, 1)

\* One row of the table of xge_wnd_points: 0 .. WND_SIZE - 1 times g, then
\* g doubled WND_WIDTH times.
xge_wnd_row(ec, st) ==
  [out |-> st.out \o For(LAMBDA row, j :
                           Append(row, xge_add(ec, row[j], st.g)),
                         <<xge_zero(ec)>>, 1, WND_SIZE),
   g |-> For(LAMBDA g, j : xge_dbl(ec, g), st.g, 0, WND_WIDTH)]

xge_wnd_points(ec, p) ==
  For(LAMBDA st, i : xge_wnd_row(ec, st),
      [out |-> <<>>, g |-> xge_set(ec, p)], 0, WND_STEPS(ec.sc.bits)).out

edwards_init(def) ==
  LET fe == prime_field_init(def.fe, -1)
      sc == scalar_field_init(def.sc, -1)
      a == fe_import_be(fe, def.a).r
      d == fe_import_be(fe, def.d).r
      x == fe_import_be(fe, def.x).r
      y == fe_import_be(fe, def.y).r
      ec0 ==
     [id |-> def.id,
      h |-> def.h,
      clamp |-> def.clamp,
      fe |-> fe,
      sc |-> sc,
      a |-> a,
      d |-> d,
      k |-> fe_add(fe, d, d),
      z |-> IF def.z < 0 THEN fe_neg(fe, fe_set_word(fe, -def.z))
            ELSE fe_set_word(fe, def.z),
      invert |-> def.invert,
      c |-> fe_import_be(fe, def.c).r,
      mone_a |-> fe_equal(fe, a, fe.mone),
      one_a |-> fe_equal(fe, a, fe.one),
      g |-> [x |-> x, y |-> y, z |-> fe.one, t |-> fe_mul(fe, x, y)],
      blind |-> sc_zero(sc),
      unblind |-> [x |-> fe.zero, y |-> fe.one, z |-> fe.one, t |-> fe.zero],
      windows |-> <<>>,
      points |-> <<>>]
  IN [ec0 EXCEPT !.windows = xge_wnd_points(ec0, ec0.g),
                 !.points = xge_naf_points(ec0, ec0.g, NAF_WIDTH_PRE)]

\* ec->clamp is the only clamp of the definitions.
edwards_clamp(ec, in) == p127_clamp(SubSeq(in, 1, ec.sc.size))

\* table[0 .. WND_SIZE-1] of edwards_mul: table[j] = j * P, two entries a
\* step.
edwards_mul_table(ec, p) ==
  For(LAMBDA table, j :
        Eval(xge_dbl(ec, table[j + 1]),
             LAMBDA ti : table \o <<ti, xge_add(ec, ti, p)>>),
      <<xge_zero(ec), xge_set(ec, p)>>, 1, WND_SIZE \div 2)

\* One window of edwards_mul, counted down from start.
edwards_mul_step(ec, table, r, k, i, start) ==
  Eval(IF i # start
       THEN For(LAMBDA d, j : xge_dbl(ec, d), r, 0, WND_WIDTH)
       ELSE r,
       LAMBDA r1 :
         xge_add(ec, r1,
                 table[sc_get_bits(ec.sc, k, i * WND_WIDTH, WND_WIDTH) + 1]))

edwards_mul(ec, p, k) ==
  Eval(edwards_mul_table(ec, p), LAMBDA table :
    For(LAMBDA r, j :
          edwards_mul_step(ec, table, r, k, WND_STEPS(ec.fe.bits) - 1 - j,
                           WND_STEPS(ec.fe.bits) - 1),
        xge_zero(ec), 0, WND_STEPS(ec.fe.bits)))

\* edwards_mul_g: blind, then unblind, one table row a window.
edwards_mul_g(ec, k) ==
  LET k0 == sc_add(ec.sc, k, ec.blind)
  IN For(LAMBDA r, i :
           xge_add(ec, r,
             ec.windows[i * WND_SIZE
                        + sc_get_bits(ec.sc, k0, i * WND_WIDTH, WND_WIDTH)
                        + 1]),
         xge_set(ec, ec.unblind), 0, WND_STEPS(ec.sc.bits))

xge_digit(ec, acc, wnd, z) ==
  IF z > 0 THEN xge_add(ec, acc, wnd[((z - 1) \div 2) + 1])
  ELSE IF z < 0 THEN xge_sub(ec, acc, wnd[((-z - 1) \div 2) + 1])
  ELSE acc

\* Digit i of the multiple multiplication: the fixed table, then each pair.
edwards_mul_multi_step(ec, acc, naf0, pairs, i, max) ==
  Eval(IF i # max - 1 THEN xge_dbl(ec, acc) ELSE acc,
       LAMBDA a0 :
         Eval(xge_digit(ec, a0, ec.points, naf0[i + 1]), LAMBDA a1 :
           For(LAMBDA a, j :
                 xge_digit(ec, a, pairs[j].wnd, pairs[j].naf[i + 1]),
               a1, 1, Len(pairs) + 1)))

\* abort = 1 when one of the two assertions on len fails.
edwards_mul_multi_var(ec, k0, points, coeffs, len) ==
  LET sc == ec.sc
      bits(m, i) == Max2(m, sc_bitlen_var(sc, coeffs[i]) + 1)
      pair(i, max) ==
        [wnd |-> xge_jsf_points(ec, points[2 * i - 1], points[2 * i]),
         naf |-> sc_jsf_var(sc, coeffs[2 * i - 1], 1, coeffs[2 * i], 1, max)]
  IN IF len % 2 # 0 \/ ~(len <= 64)
     THEN [abort |-> 1, r |-> xge_zero(ec)]
     ELSE Eval(For(bits, sc_bitlen_var(sc, k0) + 1, 1, len + 1), LAMBDA max :
          Eval(sc_naf_var(sc, k0, 1, NAF_WIDTH_PRE, max), LAMBDA naf0 :
          Eval([i \in 1..(len \div 2) |-> pair(i, max)], LAMBDA pairs :
            [abort |-> 0,
             r |-> For(LAMBDA acc, i :
                         edwards_mul_multi_step(ec, acc, naf0, pairs,
                                                max - 1 - i, max),
                       xge_zero(ec), 0, max)])))

\* Digit i of the double multiplication: the fixed table, then p2's.
edwards_mul_double_step(ec, acc, naf1, wnd2, naf2, i, max) ==
  Eval(IF i # max - 1 THEN xge_dbl(ec, acc) ELSE acc,
       LAMBDA a0 :
         Eval(xge_digit(ec, a0, ec.points, naf1[i + 1]), LAMBDA a1 :
           xge_digit(ec, a1, wnd2, naf2[i + 1])))

edwards_mul_double_var(ec, k1, p2, k2) ==
  LET sc == ec.sc
  IN Eval(Max2(sc_bitlen_var(sc, k1) + 1, sc_bitlen_var(sc, k2) + 1),
          LAMBDA max :
     Eval(sc_naf_var(sc, k1, 1, NAF_WIDTH_PRE, max), LAMBDA naf1 :
     Eval(sc_naf_var(sc, k2, 1, NAF_WIDTH, max), LAMBDA naf2 :
     Eval(xge_naf_points(ec, p2, NAF_WIDTH), LAMBDA wnd2 :
       xge_set(ec, For(LAMBDA acc, i :
                         edwards_mul_double_step(ec, acc, naf1, wnd2, naf2,
                                                 max - 1 - i, max),
                       xge_zero(ec), 0, max))))))

edwards_randomize(ec, rng) ==
  LET drawn == sc_random(ec.sc, rng)
      unblind == edwards_mul_g(ec, drawn.k)
  IN [done |-> drawn.done, blind |-> sc_neg(ec.sc, drawn.k),
      unblind |-> xge_set(ec, unblind)]

(***************************************************************************)
(* ECDSA.  A function with output parameters is the record of its return   *)
(* value, its outputs and, where it holds secrets, frame: its local        *)
(* variables as they are when it returns.  stack is the content its        *)
(* uninitialised locals start with.                                        *)
(***************************************************************************)

\* cleanse over a byte buffer.
cleanse(buf) == [i \in DOMAIN buf |-> 0]

\* A point made of whatever the stack held.
wge_stack(stack) == [x |-> stack, y |-> stack, inf |-> stack % 2]

\* The shift loop of ecdsa_reduce over tmp[i ..], with carry cy.
RECURSIVE ecdsa_reduce_shift(_, _, _)
ecdsa_reduce_shift(tmp, shift, cy) ==
  IF tmp = <<>> THEN <<>>
  ELSE LET ch == Head(tmp)
       IN <<(cy * Pow2(8 - shift) + (ch \div Pow2(shift))) % 256>>
          \o ecdsa_reduce_shift(Tail(tmp), shift, ch % Pow2(shift))

ecdsa_reduce(ec, msg, msg_len) ==
  LET sc == ec.sc
      len == IF msg_len > sc.size THEN sc.size ELSE msg_len
      pad == [i \in 1..(sc.size - len) |-> 0] \o SubSeq(msg, 1, len)
      tmp == IF len * 8 > sc.bits
             THEN ecdsa_reduce_shift(pad, len * 8 - sc.bits, 0)
             ELSE pad
  IN sc_import_weak(sc, tmp)

ecdsa_privkey_tweak_add(ec, priv, tweak, stack) ==
  LET sc == ec.sc
      a == sc_import(sc, priv)
      t == sc_import(sc, tweak)
      a1 == sc_add(sc, a.r, t.r)
      ok == a.ret = 1 /\ sc_is_zero(sc, a.r) = 0 /\ t.ret = 1
            /\ sc_is_zero(sc, a1) = 0
      la == IF a.ret = 1 /\ sc_is_zero(sc, a.r) = 0 /\ t.ret = 1
            THEN a1 ELSE a.r
      lt == IF a.ret = 1 /\ sc_is_zero(sc, a.r) = 0 THEN t.r ELSE stack
  IN [ret |-> B2I(ok),
      out |-> IF ok THEN sc_export(sc, a1) ELSE <<>>,
      frame |-> [a |-> sc_cleanse(sc, la), t |-> sc_cleanse(sc, lt)]]

ecdsa_pubkey_create(ec, priv, compact, stack) ==
  LET sc == ec.sc
      a == sc_import(sc, priv)
      valid == a.ret = 1 /\ sc_is_zero(sc, a.r) = 0
  IN Eval(IF valid THEN wei_mul_g(ec, a.r) ELSE wge_stack(stack), LAMBDA A :
       Eval(IF valid THEN wge_export(ec, A, compact)
            ELSE [ret |-> 0, raw |-> <<>>],
            LAMBDA out :
              [ret |-> out.ret, pub |-> out.raw,
               frame |-> [a |-> sc_cleanse(sc, a.r),
                          A |-> wge_cleanse(ec, A)]]))

\* The tweak is imported after the key: a return on a key that fails to
\* import leaves t as the stack held it, a return on a tweak that fails to
\* import leaves what sc_import wrote.
ecdsa_pubkey_tweak_add(ec, pub, pub_len, tweak, compact, stack) ==
  LET sc == ec.sc
      A == wge_import(ec, pub, pub_len)
      t == sc_import(sc, tweak)
  IN IF A.ret = 0
     THEN [ret |-> 0, out |-> <<>>, imported |-> 0, frame |-> [t |-> stack]]
     ELSE IF t.ret = 0
     THEN [ret |-> 0, out |-> <<>>, imported |-> 1, frame |-> [t |-> t.r]]
     ELSE Eval(wei_mul_g(ec, t.r), LAMBDA T :
            Eval(wge_export(ec, wge_add(ec, A.r, T), compact), LAMBDA res :
              [ret |-> res.ret, out |-> res.raw, imported |-> 1,
               frame |-> [t |-> sc_cleanse(sc, t.r)]]))

schnorr_pubkey_tweak_add(ec, pub, tweak, stack) ==
  LET sc == ec.sc
      A == wge_import_x(ec, pub)
      t == sc_import(sc, tweak)
  IN IF A.ret = 0
     THEN [ret |-> 0, out |-> <<>>, imported |-> 0, frame |-> [t |-> stack]]
     ELSE IF t.ret = 0
     THEN [ret |-> 0, out |-> <<>>, imported |-> 1, frame |-> [t |-> t.r]]
     ELSE Eval(wei_mul_g(ec, t.r), LAMBDA T :
            Eval(wge_export_x(ec, wge_add(ec, A.r, T)), LAMBDA res :
              [ret |-> res.ret, out |-> res.raw, imported |-> 1,
               frame |-> [t |-> sc_cleanse(sc, t.r)]]))

eddsa_scalar_tweak_add(ec, scalar, tweak) ==
  LET sc == ec.sc
      a == sc_import_reduce(sc, scalar).r
      t == sc_import_reduce(sc, tweak).r
      a1 == sc_add(sc, a, t)
  IN [ret |-> 1, out |-> sc_export(sc, a1), imported |-> 1,
      frame |-> [a |-> sc_cleanse(sc, a1), t |-> t]]

eddsa_scalar_tweak_mul(ec, scalar, tweak) ==
  LET sc == ec.sc
      a == sc_import_reduce(sc, scalar).r
      t == sc_import_reduce(sc, tweak).r
      a1 == sc_mul(sc, a, t)
  IN [ret |-> 1, out |-> sc_export(sc, a1), imported |-> 1,
      frame |-> [a |-> sc_cleanse(sc, a1), t |-> t]]

\* The signing loop over the generator's output rng, a sequence of byte
\* strings.  done = 0 when the given prefix of the output is used up
\* before an iteration reaches the break.  ecdsa_sign_loop is the head of
\* an iteration (the nonce k), ecdsa_sign_point the blinded multiplication
\* R = k * G, ecdsa_sign_iter what follows it.
RECURSIVE ecdsa_sign_loop(_, _, _, _, _)
RECURSIVE ecdsa_sign_point(_, _, _, _, _, _)
RECURSIVE ecdsa_sign_iter(_, _, _, _, _, _, _)
ecdsa_sign_iter(ec, a, m, rng, l1, k, R) ==
  LET sc == ec.sc
      fe == ec.fe
      r == sc_set_fe(sc, fe, R.x)
      high == Not1(r.ret)
      ki == sc_invert(sc, k).r
      s0 == sc_mul(sc, sc_add(sc, sc_mul(sc, r.r, a), m), ki)
      s == sc_minimize(sc, s0)
      sign == (fe_is_odd(fe, R.y) + s.ret) % 2
      l2 == [l1 EXCEPT !.R = R]
      l3 == [l2 EXCEPT !.r = r.r]
  IN IF wge_is_zero(ec, R) = 1 \/ sc_is_zero(sc, r.r) = 1
     THEN ecdsa_sign_loop(ec, a, m, Tail(rng),
                          IF wge_is_zero(ec, R) = 1 THEN l2 ELSE l3)
     ELSE [done |-> 1,
           sig |-> sc_export(sc, r.r) \o sc_export(sc, s.r),
           param |-> high * 2 + sign,
           loc |-> [l3 EXCEPT !.k = ki, !.s = s.r]]

ecdsa_sign_point(ec, a, m, rng, last, k) ==
  LET sc == ec.sc
      l1 == [last EXCEPT !.k = k.r,
                         !.bytes = Head(rng) \o sc_export(sc, m)]
  IN IF k.ret = 0 \/ sc_is_zero(sc, k.r) = 1
     THEN ecdsa_sign_loop(ec, a, m, Tail(rng), l1)
     ELSE ecdsa_sign_iter(ec, a, m, rng, l1, k.r, wei_mul_g(ec, k.r))

ecdsa_sign_loop(ec, a, m, rng, last) ==
  IF rng = <<>> THEN [done |-> 0, loc |-> last]
  ELSE ecdsa_sign_point(ec, a, m, rng, last,
                        ecdsa_reduce(ec, Head(rng), ec.sc.size))

\* The return of ecdsa_sign: run is what the loop left.
ecdsa_sign_return(ec, a, valid, run, stack) ==
  LET sc == ec.sc
      loc == IF valid THEN run.loc
             ELSE [rng |-> <<stack>>, a |-> a.r, m |-> stack, k |-> stack,
                   r |-> stack, s |-> stack, R |-> wge_stack(stack),
                   bytes |-> <<stack>>]
  IN [done |-> IF valid THEN run.done ELSE 1,
      ret |-> B2I(valid),
      sig |-> IF valid /\ run.done = 1 THEN run.sig ELSE <<>>,
      param |-> IF valid /\ run.done = 1 THEN run.param ELSE 0,
      frame |-> [rng |-> cleanse(loc.rng),
                 a |-> sc_cleanse(sc, loc.a),
                 m |-> sc_cleanse(sc, loc.m),
                 k |-> sc_cleanse(sc, loc.k),
                 r |-> sc_cleanse(sc, loc.r),
                 s |-> sc_cleanse(sc, loc.s),
                 R |-> wge_cleanse(ec, loc.R),
                 bytes |-> cleanse(loc.bytes)]]

ecdsa_sign(ec, msg, msg_len, priv, rng, stack) ==
  LET sc == ec.sc
      a == sc_import(sc, priv)
      valid == a.ret = 1 /\ sc_is_zero(sc, a.r) = 0
      m == ecdsa_reduce(ec, msg, msg_len).r
      seed == sc_export(sc, a.r) \o sc_export(sc, m)
      loc0 == [rng |-> seed, a |-> a.r, m |-> m, k |-> stack, r |-> stack,
               s |-> stack, R |-> wge_stack(stack), bytes |-> seed]
  IN ecdsa_sign_return(ec, a, valid,
                       ecdsa_sign_loop(ec, a.r, m, rng, loc0), stack)

\* trick is 1 on a build with ECC_WITH_TRICK defined.
ecdsa_verify(ec, msg, msg_len, sig, pub, pub_len, trick) ==
  LET sc == ec.sc
      m == ecdsa_reduce(ec, msg, msg_len).r
      r == sc_import(sc, SubSeq(sig, 1, sc.size))
      s == sc_import(sc, SubSeq(sig, sc.size + 1, 2 * sc.size))
  IN Eval(wge_import(ec, pub, pub_len), LAMBDA A :
       IF A.ret = 0 THEN 0
       ELSE IF r.ret = 0 THEN 0
       ELSE IF s.ret = 0 THEN 0
       ELSE IF sc_is_zero(sc, r.r) = 1 \/ sc_is_zero(sc, s.r) = 1 THEN 0
       ELSE IF sc_is_high(sc, s.r) = 1 THEN 0
       ELSE Eval(sc_invert_var(sc, s.r).r, LAMBDA si :
            Eval(wei_jmul_double_var(ec, sc_mul(sc, m, si), A.r,
                                     sc_mul(sc, r.r, si)),
                 LAMBDA Rj :
                   IF trick = 1 THEN jge_equal_r(ec, Rj, r.r)
                   ELSE IF jge_is_zero(ec, Rj) = 1 THEN 0
                   ELSE sc_equal(sc, r.r,
                          sc_set_fe(sc, ec.fe,
                                    jge_to_wge_var(ec, Rj).x).r))))

ecdsa_recover(ec, msg, msg_len, sig, param, compact) ==
  LET sc == ec.sc
      fe == ec.fe
      sign == param % 2
      high == param \div 2
      m == ecdsa_reduce(ec, msg, msg_len).r
      r == sc_import(sc, SubSeq(sig, 1, sc.size))
      s == sc_import(sc, SubSeq(sig, sc.size + 1, 2 * sc.size))
      x0 == fe_set_sc(fe, sc, r.r).r
      x == IF high # 0 THEN fe_add(fe, x0, ec.red_n) ELSE x0
      fail == [ret |-> 0, pub |-> <<>>]
  IN IF r.ret = 0 THEN fail
     ELSE IF s.ret = 0 THEN fail
     ELSE IF sc_is_zero(sc, r.r) = 1 \/ sc_is_zero(sc, s.r) = 1 THEN fail
     ELSE IF sc_is_high(sc, s.r) = 1 THEN fail
     ELSE IF high # 0 /\ sc_cmp_var(sc, r.r, ec.pmodn) >= 0 THEN fail
     ELSE Eval(wge_set_x(ec, x, sign), LAMBDA R :
          IF R.ret = 0 THEN fail
          ELSE Eval(sc_invert_var(sc, r.r).r, LAMBDA ri :
               Eval(wei_mul_double_var(ec, sc_neg(sc, sc_mul(sc, m, ri)),
                                       R.r, sc_mul(sc, s.r, ri)),
                    LAMBDA A :
                      Eval(wge_export(ec, A, compact), LAMBDA out :
                        [ret |-> out.ret, pub |-> out.raw]))))

\* The return of ecdsa_derive: a, A and P are the locals at fail.
ecdsa_derive_return(ec, a, A, P, out) ==
  [ret |-> B2I(A.ret = 1 /\ out.ret = 1),
   secret |-> IF A.ret = 1 /\ out.ret = 1 THEN out.raw ELSE <<>>,
   frame |-> [a |-> sc_cleanse(ec.sc, a.r),
              A |-> wge_cleanse(ec, A.r),
              P |-> wge_cleanse(ec, P)]]

ecdsa_derive_mul(ec, a, A, compact, stack) ==
  Eval(IF A.ret = 1 THEN wei_mul(ec, A.r, a.r) ELSE wge_stack(stack),
       LAMBDA P : ecdsa_derive_return(ec, a, A, P,
                                      wge_export(ec, P, compact)))

ecdsa_derive_point(ec, a, pub, pub_len, compact, stack) ==
  Eval(IF a.ret = 1 /\ sc_is_zero(ec.sc, a.r) = 0
       THEN wge_import(ec, pub, pub_len)
       ELSE [ret |-> 0, r |-> wge_stack(stack)],
       LAMBDA A : ecdsa_derive_mul(ec, a, A, compact, stack))

ecdsa_derive(ec, pub, pub_len, priv, compact, stack) ==
  ecdsa_derive_point(ec, sc_import(ec.sc, priv), pub, pub_len, compact,
                     stack)

(***************************************************************************)
(* ECDH on Montgomery curves.                                              *)
(***************************************************************************)

\* aborted is 1 when the assertion on pge_export fails.
ecdh_pubkey_create(ec, priv) ==
  Eval(mont_clamp(ec, priv), LAMBDA clamped :
    Eval(mont_mul_g(ec, sc_import(ec.sc, clamped).r), LAMBDA A :
      Eval(pge_export(ec, A), LAMBDA out :
        [aborted |-> Not1(out.ret),
         pub |-> out.raw,
         frame |-> [clamped |-> cleanse(clamped),
                    a |-> sc_cleanse(ec.sc, sc_import(ec.sc, clamped).r),
                    A |-> pge_cleanse(ec, A)]])))

\* point is P as it is before the locals are cleansed.
ecdh_derive(ec, pub, priv) ==
  Eval(mont_clamp(ec, priv), LAMBDA clamped :
    Eval(mont_mul(ec, pge_import(ec, pub), sc_import(ec.sc, clamped).r),
         LAMBDA P :
      Eval(pge_export(ec, P), LAMBDA out :
        [ret |-> out.ret,
         secret |-> out.raw,
         point |-> P,
         frame |-> [clamped |-> cleanse(clamped),
                    a |-> sc_cleanse(ec.sc, sc_import(ec.sc, clamped).r),
                    A |-> pge_cleanse(ec, pge_import(ec, pub)),
                    P |-> pge_cleanse(ec, P)]])))

(***************************************************************************)
(* Key agreement on Edwards curves.  The hash of the private key is an     *)
(* input: digest is what hash_final wrote.                                 *)
(***************************************************************************)

eddsa_privkey_hash(ec, digest) ==
  edwards_clamp(ec, digest)
  \o SubSeq(digest, ec.sc.size + 1, Len(digest))

eddsa_privkey_convert(ec, digest) ==
  SubSeq(eddsa_privkey_hash(ec, digest), 1, ec.sc.size)

\* After the import of the peer's key: imported is the result of
\* xge_import, point is P as it is before the locals are cleansed.
eddsa_derive_point(ec, A, a, stack) ==
  Eval(IF A.ret = 1 THEN edwards_mul(ec, A.r, a) ELSE stack, LAMBDA P :
    [ret |-> A.ret * Not1(xge_is_zero(ec, P)),
     secret |-> IF A.ret = 1 /\ xge_is_zero(ec, P) = 0
                THEN xge_export(ec, P).raw ELSE <<>>,
     imported |-> A.ret,
     point |-> P,
     frame |-> [a |-> sc_cleanse(ec.sc, a),
                A |-> xge_cleanse(ec, A.r),
                P |-> xge_cleanse(ec, P)]])

eddsa_derive_with_scalar(ec, pub, scalar, stack) ==
  Eval(sc_import(ec.sc, edwards_clamp(ec, scalar)).r, LAMBDA a :
    Eval(xge_import(ec, pub, stack), LAMBDA A :
      eddsa_derive_point(ec, A, a, stack)))

eddsa_derive(ec, pub, digest, stack) ==
  eddsa_derive_with_scalar(ec, pub, eddsa_privkey_convert(ec, digest), stack)

(***************************************************************************)
(* Schnorr signatures.  The hash functions are not part of the library's   *)
(* code: a function that hashes takes the digest the hash gives for its    *)
(* input.                                                                  *)
(***************************************************************************)

schnorr_pubkey_create(ec, priv) ==
  LET sc == ec.sc
      a == sc_import(sc, priv)
  IN IF a.ret = 0 THEN [ret |-> 0, pub |-> <<>>]
     ELSE IF sc_is_zero(sc, a.r) = 1 THEN [ret |-> 0, pub |-> <<>>]
     ELSE Eval(wge_export_x(ec, wei_mul_g(ec, a.r)), LAMBDA out :
            [ret |-> out.ret, pub |-> out.raw])

schnorr_hash_am(ec, digest) == sc_import_reduce(ec.sc, digest).r

schnorr_hash_ram(ec, digest) == sc_import_reduce(ec.sc, digest).r

\* am is the digest of (a, msg), ram the digest of (r, x, msg).  aborted is
\* 1 when the assertion on p fails.
schnorr_sign(ec, priv, am, ram) ==
  LET sc == ec.sc
      a0 == sc_import(sc, priv)
      fail == [aborted |-> 0, ret |-> 0, sig |-> <<>>]
  IN IF ec.fe.p % 4 # 3 THEN [fail EXCEPT !.aborted = 1]
     ELSE IF a0.ret = 0 THEN fail
     ELSE IF sc_is_zero(sc, a0.r) = 1 THEN fail
     ELSE Eval(wei_mul_g(ec, a0.r), LAMBDA A :
          Eval(sc_neg_cond(sc, a0.r, 1 - wge_is_square(ec, A)), LAMBDA a :
          Eval(schnorr_hash_am(ec, am), LAMBDA k0 :
            IF sc_is_zero(sc, k0) = 1 THEN fail
            ELSE Eval(wei_mul_g(ec, k0), LAMBDA R :
                 Eval(sc_neg_cond(sc, k0, 1 - wge_is_square(ec, R)),
                      LAMBDA k :
                 Eval(schnorr_hash_ram(ec, ram), LAMBDA e :
                   [aborted |-> 0, ret |-> 1,
                    sig |-> wge_export_x(ec, R).raw
                            \o sc_export(sc, sc_add(sc, sc_mul(sc, e, a),
                                                    k))]))))))

schnorr_verify(ec, sig, pub, ram) ==
  LET fe == ec.fe
      sc == ec.sc
      r == fe_import(fe, SubSeq(sig, 1, fe.size))
      s == sc_import(sc, SubSeq(sig, fe.size + 1, fe.size + sc.size))
  IN IF r.ret = 0 THEN 0
     ELSE IF s.ret = 0 THEN 0
     ELSE Eval(wge_import_x(ec, pub), LAMBDA A :
            IF A.ret = 0 THEN 0
            ELSE Eval(wei_jmul_double_var(ec, s.r, A.r,
                        sc_neg(sc, schnorr_hash_ram(ec, ram))),
                      LAMBDA R :
                        IF jge_is_square_var(ec, R) = 0 THEN 0
                        ELSE IF jge_equal_x(ec, R, r.r) = 0 THEN 0
                        ELSE 1))

(***************************************************************************)
(* Batch verification.  A batch item is the record of one message with its *)
(* signature and key; hash is the digest the hash function gives for the   *)
(* item and rng the output the generator gives while the item's            *)
(* coefficient is drawn.  The loop's state is j, sum and the first j       *)
(* entries of scratch->points and scratch->coeffs, with calls, the len of  *)
(* each call of the multiplication so far, and weights, the coefficient a  *)
(* of each item so far with whether it was drawn from the generator.  at   *)
(* is "loop" while the function runs, "return" with ret at a return,       *)
(* "abort" at a failed assertion and "overflow" at a write past the end of *)
(* the scratch.                                                            *)
(***************************************************************************)

batch_begin(sc, ok) ==
  [at |-> IF ok THEN "loop" ELSE "abort", ret |-> 0, j |-> 0,
   sum |-> sc_zero(sc), points |-> <<>>, coeffs |-> <<>>, calls |-> <<>>,
   weights |-> <<>>]

batch_return(st, ret) == [st EXCEPT !.at = "return", !.ret = ret]

\* The tail of an iteration: the item's terms are added to sum and its
\* points and coefficients written at j and j + 1 of the scratch.
\* An iteration's tail with the coefficient 1 at the first item of the batch
\* and at no other.
batch_push_once(sc, st, R, A, s, e, rng) ==
  IF st.j + 1 >= 64 THEN [st EXCEPT !.at = "overflow"]
  ELSE Eval(IF Len(st.weights) = 0 THEN 1 ELSE sc_random(sc, rng).k,
            LAMBDA a :
         [st EXCEPT !.sum = sc_add(sc, st.sum, sc_mul(sc, s, a)),
                    !.points = SubSeq(st.points, 1, st.j) \o <<R, A>>,
                    !.coeffs = SubSeq(st.coeffs, 1, st.j)
                               \o <<a, sc_mul(sc, e, a)>>,
                    !.weights = Append(@, [drawn |-> B2I(Len(@) # 0),
                                           a |-> a]),
                    !.j = st.j + 2])

batch_push(sc, st, R, A, s, e, rng) ==
  IF st.j + 1 >= 64 THEN [st EXCEPT !.at = "overflow"]
  ELSE Eval(IF st.j = 0 THEN 1 ELSE sc_random(sc, rng).k, LAMBDA a :
         [st EXCEPT !.sum = sc_add(sc, st.sum, sc_mul(sc, s, a)),
                    !.points = SubSeq(st.points, 1, st.j) \o <<R, A>>,
                    !.coeffs = SubSeq(st.coeffs, 1, st.j)
                               \o <<a, sc_mul(sc, e, a)>>,
                    !.weights = Append(@, [drawn |-> B2I(st.j # 0),
                                           a |-> a]),
                    !.j = st.j + 2])

ecdsa_schnorr_hash_ram(ec, digest) == sc_import_reduce(ec.sc, digest).r

eddsa_hash_final(ec, digest) ==
  LET adj_size == ec.fe.size + B2I(ec.fe.bits % 8 = 0)
  IN sc_reduce(ec.sc, mpn_import(digest, adj_size * 2, ec.sc.shift * 2,
                                 ec.sc.endian))

eddsa_hash_ram(ec, digest) == eddsa_hash_final(ec, digest)

\* G * -sum + points * coeffs, and whether it is the point at infinity.
schnorr_verify_batch_sum(ec, st) ==
  LET st1 == [st EXCEPT !.calls = Append(@, st.j)]
  IN Eval(wei_jmul_multi_var(ec, sc_neg(ec.sc, st.sum), st.points,
                             st.coeffs, st.j),
          LAMBDA r :
            IF r.abort = 1 THEN [st1 EXCEPT !.at = "abort"]
            ELSE IF jge_is_zero(ec, r.r) = 0 THEN batch_return(st1, 0)
            ELSE st1)

schnorr_verify_batch_skip(ec, st) == st

\* The end of an iteration: a full scratch is summed and emptied.
schnorr_verify_batch_full(ec, st) ==
  IF st.at = "loop" /\ st.j = 64
  THEN Eval(schnorr_verify_batch_sum(ec, st), LAMBDA st1 :
         IF st1.at # "loop" THEN st1
         ELSE [st1 EXCEPT !.sum = sc_zero(ec.sc), !.j = 0])
  ELSE st

schnorr_verify_batch_item(ec, st, item) ==
  LET fe == ec.fe
      sc == ec.sc
      Rraw == SubSeq(item.sig, 1, fe.size)
      sraw == SubSeq(item.sig, fe.size + 1, fe.size + sc.size)
      R == wge_import_x(ec, Rraw)
      A == wge_import_x(ec, item.pub)
      s == sc_import(sc, sraw)
  IN IF R.ret = 0 THEN batch_return(st, 0)
     ELSE IF A.ret = 0 THEN batch_return(st, 0)
     ELSE IF s.ret = 0 THEN batch_return(st, 0)
     ELSE Eval(batch_push(sc, st, wge_set(ec, R.r), wge_set(ec, A.r), s.r,
                          schnorr_hash_ram(ec, item.hash), item.rng),
               LAMBDA st1 : schnorr_verify_batch_full(ec, st1))

schnorr_verify_batch(ec, items, len) ==
  Eval(For(LAMBDA st, i :
             IF st.at # "loop" THEN st
             ELSE schnorr_verify_batch_item(ec, st, items[i]),
           batch_begin(ec.sc, ec.fe.p % 4 = 3), 1, len + 1),
       LAMBDA st :
         IF st.at # "loop" THEN st
         ELSE IF st.j > 0
         THEN Eval(schnorr_verify_batch_sum(ec, st), LAMBDA st1 :
                IF st1.at # "loop" THEN st1 ELSE batch_return(st1, 1))
         ELSE batch_return(st, 1))

\* G * -sum + points * coeffs, and whether it is the point at infinity.
ecdsa_schnorr_verify_batch_sum(ec, st) ==
  LET st1 == [st EXCEPT !.calls = Append(@, st.j)]
  IN Eval(wei_jmul_multi_var(ec, sc_neg(ec.sc, st.sum), st.points,
                             st.coeffs, st.j),
          LAMBDA r :
            IF r.abort = 1 THEN [st1 EXCEPT !.at = "abort"]
            ELSE IF jge_is_zero(ec, r.r) = 0 THEN batch_return(st1, 0)
            ELSE st1)

\* The end of an iteration: a full scratch is summed and emptied.
ecdsa_schnorr_verify_batch_full(ec, st) ==
  IF st.at = "loop" /\ st.j = 64
  THEN Eval(ecdsa_schnorr_verify_batch_sum(ec, st), LAMBDA st1 :
         IF st1.at # "loop" THEN st1
         ELSE [st1 EXCEPT !.sum = sc_zero(ec.sc), !.j = 0])
  ELSE st

ecdsa_schnorr_verify_batch_item(ec, st, item) ==
  LET fe == ec.fe
      sc == ec.sc
      Rraw == SubSeq(item.sig, 1, fe.size)
      sraw == SubSeq(item.sig, fe.size + 1, fe.size + sc.size)
      R == wge_import_x(ec, Rraw)
      A == wge_import(ec, item.pub, Len(item.pub))
      s == sc_import(sc, sraw)
  IN IF R.ret = 0 THEN batch_return(st, 0)
     ELSE IF A.ret = 0 THEN batch_return(st, 0)
     ELSE IF s.ret = 0 THEN batch_return(st, 0)
     ELSE Eval(batch_push(sc, st, wge_set(ec, R.r), wge_set(ec, A.r), s.r,
                          ecdsa_schnorr_hash_ram(ec, item.hash), item.rng),
               LAMBDA st1 : ecdsa_schnorr_verify_batch_full(ec, st1))

ecdsa_schnorr_verify_batch(ec, items, len) ==
  Eval(For(LAMBDA st, i :
             IF st.at # "loop" THEN st
             ELSE ecdsa_schnorr_verify_batch_item(ec, st, items[i]),
           batch_begin(ec.sc, ec.fe.p % 4 = 3), 1, len + 1),
       LAMBDA st :
         IF st.at # "loop" THEN st
         ELSE IF st.j > 0
         THEN Eval(ecdsa_schnorr_verify_batch_sum(ec, st), LAMBDA st1 :
                IF st1.at # "loop" THEN st1 ELSE batch_return(st1, 1))
         ELSE batch_return(st, 1))

\* The item's parts as both verifications import them.
eddsa_verify_import(ec, sig, pub) ==
  LET fe == ec.fe
      adj_size == fe.size + B2I(fe.bits % 8 = 0)
      sraw == SubSeq(sig, adj_size + 1, 2 * adj_size)
  IN [R |-> xge_import(ec, SubSeq(sig, 1, adj_size), xge_zero(ec)),
      A |-> xge_import(ec, pub, xge_zero(ec)),
      s |-> sc_import(ec.sc, sraw),
      pad |-> IF fe.bits % 8 = 0 THEN sraw[fe.size + 1] ELSE 0]

\* ram is the digest of R, A and the message.
eddsa_verify(ec, sig, pub, ram) ==
  Eval(eddsa_verify_import(ec, sig, pub), LAMBDA in :
    IF in.R.ret = 0 THEN 0
    ELSE IF in.A.ret = 0 THEN 0
    ELSE IF in.s.ret = 0 THEN 0
    ELSE IF in.pad # 0 THEN 0
    ELSE xge_equal(ec, in.R.r,
                   edwards_mul_double_var(ec, in.s.r, xge_neg(ec, in.A.r),
                                          eddsa_hash_ram(ec, ram))))

eddsa_verify_single(ec, sig, pub, ram) ==
  Eval(eddsa_verify_import(ec, sig, pub), LAMBDA in :
    IF in.R.ret = 0 THEN 0
    ELSE IF in.A.ret = 0 THEN 0
    ELSE IF in.s.ret = 0 THEN 0
    ELSE IF in.pad # 0 THEN 0
    ELSE xge_equal(ec, xge_mulh(ec, in.R.r),
                   edwards_mul_double_var(
                     ec, sc_mul_word(ec.sc, in.s.r, ec.h),
                     xge_neg(ec, xge_mulh(ec, in.A.r)),
                     eddsa_hash_ram(ec, ram))))

\* G * -(sum * h) + points * coeffs, and whether it is the neutral point.
eddsa_verify_batch_sum(ec, st) ==
  LET st1 == [st EXCEPT !.calls = Append(@, st.j)]
  IN Eval(sc_neg(ec.sc, sc_mul_word(ec.sc, st.sum, ec.h)), LAMBDA sum :
     Eval(edwards_mul_multi_var(ec, sum, st.points, st.coeffs, st.j),
          LAMBDA r :
            IF r.abort = 1 THEN [st1 EXCEPT !.at = "abort"]
            ELSE IF xge_is_zero(ec, r.r) = 0 THEN batch_return(st1, 0)
            ELSE st1))

eddsa_verify_batch_full(ec, st) ==
  IF st.at = "loop" /\ st.j = 64
  THEN Eval(eddsa_verify_batch_sum(ec, st), LAMBDA st1 :
         IF st1.at # "loop" THEN st1
         ELSE [st1 EXCEPT !.sum = sc_zero(ec.sc), !.j = 0])
  ELSE st

eddsa_verify_batch_item(ec, st, item) ==
  LET fe == ec.fe
      sc == ec.sc
      adj_size == fe.size + B2I(fe.bits % 8 = 0)
      Rraw == SubSeq(item.sig, 1, adj_size)
      sraw == SubSeq(item.sig, adj_size + 1, 2 * adj_size)
      R == xge_import(ec, Rraw, xge_zero(ec))
      A == xge_import(ec, item.pub, xge_zero(ec))
      s == sc_import(sc, sraw)
  IN IF R.ret = 0 THEN batch_return(st, 0)
     ELSE IF A.ret = 0 THEN batch_return(st, 0)
     ELSE IF s.ret = 0 THEN batch_return(st, 0)
     ELSE IF fe.bits % 8 = 0 /\ sraw[fe.size + 1] # 0
     THEN batch_return(st, 0)
     ELSE Eval(batch_push(sc, st, xge_mulh(ec, R.r), xge_mulh(ec, A.r), s.r,
                          eddsa_hash_ram(ec, item.hash), item.rng),
               LAMBDA st1 : eddsa_verify_batch_full(ec, st1))

eddsa_verify_batch(ec, items, len) ==
  Eval(For(LAMBDA st, i :
             IF st.at # "loop" THEN st
             ELSE eddsa_verify_batch_item(ec, st, items[i]),
           batch_begin(ec.sc, TRUE), 1, len + 1),
       LAMBDA st :
         IF st.at # "loop" THEN st
         ELSE IF st.j > 0
         THEN Eval(eddsa_verify_batch_sum(ec, st), LAMBDA st1 :
                IF st1.at # "loop" THEN st1 ELSE batch_return(st1, 1))
         ELSE batch_return(st, 1))

(***************************************************************************)
(* The state: one context (its curve, the build it was compiled for, its   *)
(* blinding pair) and what its callers hold.                               *)
(***************************************************************************)

VARIABLES
  curve,    \* the curve of the context
  trick,    \* 1 when built with ECC_WITH_TRICK
  blind,    \* ec->blind
  unblind,  \* ec->unblind
  key,      \* the key pair the caller created
  signed,   \* the signature the caller produced
  call,     \* the latest call and what it returned
  frame,    \* the locals of the latest secret-holding call, at its return
  peer,     \* the key pair of the other party of a key agreement
  shared,   \* what each party of a key agreement derived
  batch,    \* the signatures collected for batch verification
  rnd,      \* a thread inside wei_randomize
  mul       \* a thread inside wei_jmul_g

vars == <<curve, trick, blind, unblind, key, signed, call, frame, peer,
          shared, batch, rnd, mul>>

\* What the calls of one party on one thread leave alone.
dh_vars == <<peer, shared>>

par_vars == <<rnd, mul>>

W23 == wei_init(curve_w23)

K163 == wei_init(curve_k163)

K163E == wei_init(curve_k163e)

H31 == wei_init(curve_h31)

wei_curve(id) ==
  IF id = "W23" THEN W23 ELSE IF id = "H31" THEN H31 ELSE K163

M127 == mont_init(curve_m127)

\* The context as the library sees it: the curve with the current pair.
EC == [wei_curve(curve) EXCEPT !.blind = blind, !.unblind = unblind]

NoKey == [ret |-> -1, priv |-> <<>>, pub |-> <<>>, compact |-> 0]

NoSig == [ret |-> -1, msg |-> <<>>, sig |-> <<>>, param |-> 0]

NoCall == [fn |-> "none", ret |-> -1]

NoFrame == [fn |-> "none"]

NoShared == [ret |-> -1]

Idle == [pc |-> "idle"]

\* Private key bytes: valid keys, zero, the order and past it.
Privs(id) ==
  IF id = "W23"
  THEN {<<0>>, <<1>>, <<2>>, <<3>>, <<9>>, <<16>>, <<17>>, <<255>>}
  ELSE {<<0>>, <<1>>, <<2>>, <<69>>, <<70>>, <<138>>, <<139>>}

\* Message digests, shorter than, as long as and longer than a scalar.
Msgs == {<<>>, <<128>>, <<248, 1>>, <<77>>}

\* Generator output for the signing nonce: every nonce of the 5 bit curve,
\* alone and after a draw the loop rejects.
Nonces(id) ==
  IF id = "W23"
  THEN {<<<<8 * k>>>> : k \in 1..16}
       \cup {<<<<0>>, <<8 * k>>>> : k \in {4, 9}}
       \cup {<<<<136>>, <<40>>>>}
  ELSE {<<<<1>>>>, <<<<5>>>>, <<<<77>>>>, <<<<138>>>>,
        <<<<0>>, <<70>>>>, <<<<139>>, <<3>>>>}

\* Generator output for wei_randomize.
Entropy(id) ==
  IF id = "W23" THEN {<<<<17>>, <<12>>>>} ELSE {<<<<0>>, <<100>>>>}

\* What an uninitialised local may hold.
Stack == {0, 1}

\* Recovery parameters 0 .. MaxParam.
MaxParam == 3

Init ==
  /\ curve \in {"W23", "K163"}
  /\ trick \in {0, 1}
  /\ blind = 0
  /\ unblind = [x |-> 0, y |-> 0, inf |-> 1]
  /\ key = NoKey
  /\ signed = NoSig
  /\ call = NoCall
  /\ frame = NoFrame
  /\ peer = NoKey
  /\ shared = [a |-> NoShared, b |-> NoShared]
  /\ batch = <<>>
  /\ rnd = Idle
  /\ mul = Idle

\* wei_randomize, by a caller that holds the context alone.
\* Each action evaluates the function once and hands the result to the
\* operator that stores it.
RandomizeReturn(res) ==
  /\ res.done = 1
  /\ blind' = res.blind
  /\ unblind' = res.unblind
  /\ call' = [fn |-> "wei_randomize", ret |-> 1]

Randomize ==
  /\ key = NoKey
  /\ call = NoCall
  /\ \E ec \in {EC}, rng \in Entropy(curve) :
       RandomizeReturn(wei_randomize(ec, rng))
  /\ UNCHANGED <<curve, trick, key, signed, frame, dh_vars, batch, par_vars>>

PubkeyCreateReturn(res, priv, compact) ==
  /\ key' = [ret |-> res.ret, priv |-> priv, pub |-> res.pub,
             compact |-> compact]
  /\ call' = [fn |-> "ecdsa_pubkey_create", ret |-> res.ret]
  /\ frame' = [fn |-> "ecdsa_pubkey_create", locals |-> res.frame]

PubkeyCreate ==
  /\ key = NoKey
  /\ \E ec \in {EC}, priv \in Privs(curve), compact \in {0, 1},
        stack \in Stack :
       PubkeyCreateReturn(ecdsa_pubkey_create(ec, priv, compact, stack),
                          priv, compact)
  /\ UNCHANGED <<curve, trick, blind, unblind, signed, dh_vars, batch, par_vars>>

SignReturn(res, msg) ==
  /\ res.done = 1
  /\ signed' = [ret |-> res.ret, msg |-> msg, sig |-> res.sig,
                param |-> res.param]
  /\ call' = [fn |-> "ecdsa_sign", ret |-> res.ret]
  /\ frame' = [fn |-> "ecdsa_sign", locals |-> res.frame]

\* Public keys a caller may be handed: the keys of valid private keys in
\* both encodings, and encodings wge_import refuses.
PeerPubs(ec) ==
  {ecdsa_pubkey_create(ec, b, c, 0).pub : b \in {<<2>>, <<3>>}, c \in {0, 1}}
  \cup {<<>>, <<4, 0, 0>>, <<2, 255>>, <<0>>, <<4, 1>>}

DeriveReturn(res, pub) ==
  /\ call' = [fn |-> "ecdsa_derive", ret |-> res.ret, pub |-> pub,
              secret |-> res.secret]
  /\ frame' = [fn |-> "ecdsa_derive", locals |-> res.frame]

Derive ==
  /\ call.fn = "ecdsa_pubkey_create"
  /\ \E ec \in {EC}, compact \in {0, 1}, stack \in Stack :
       \E pub \in PeerPubs(ec) :
         DeriveReturn(ecdsa_derive(ec, pub, Len(pub), key.priv, compact,
                                   stack), pub)
  /\ UNCHANGED <<curve, trick, blind, unblind, key, signed, dh_vars, batch,
               par_vars>>

TweakAddReturn(res, tweak) ==
  /\ call' = [fn |-> "ecdsa_privkey_tweak_add", ret |-> res.ret,
              tweak |-> tweak, out |-> res.out]
  /\ frame' = [fn |-> "ecdsa_privkey_tweak_add", locals |-> res.frame]

TweakAdd ==
  /\ call.fn = "ecdsa_pubkey_create"
  /\ \E ec \in {EC}, tweak \in Privs(curve), stack \in Stack :
       TweakAddReturn(ecdsa_privkey_tweak_add(ec, key.priv, tweak, stack),
                      tweak)
  /\ UNCHANGED <<curve, trick, blind, unblind, key, signed, dh_vars, batch,
               par_vars>>

Sign ==
  /\ call.fn = "ecdsa_pubkey_create"
  /\ signed = NoSig
  /\ \E ec \in {EC}, msg \in Msgs, rng \in Nonces(curve), stack \in Stack :
       SignReturn(ecdsa_sign(ec, msg, Len(msg), key.priv, rng, stack), msg)
  /\ UNCHANGED <<curve, trick, blind, unblind, key, dh_vars, batch, par_vars>>

\* The two halves of a signature.
sig_r(ec, sig) == SubSeq(sig, 1, ec.sc.size)

sig_s(ec, sig) == SubSeq(sig, ec.sc.size + 1, 2 * ec.sc.size)

\* (r, n - s) for a signature (r, s).
Malleated(ec, sig) ==
  sig_r(ec, sig)
  \o sc_export(ec.sc, sc_neg(ec.sc, sc_import(ec.sc, sig_s(ec, sig)).r))

\* s values above n / 2, as bytes: below the order, the order, past it.
HighS(id) ==
  IF id = "W23" THEN {<<9>>, <<16>>, <<17>>, <<255>>}
  ELSE {<<70>>, <<138>>, <<139>>, <<255>>}

\* The signatures a verifier is handed: the one signed, its malleated
\* twin, and the same r with every high s.
SigInputs(ec) ==
  {signed.sig, Malleated(ec, signed.sig)}
  \cup {sig_r(ec, signed.sig) \o h : h \in HighS(curve)}

Verify ==
  /\ key.ret = 1
  /\ signed.ret = 1
  /\ call.fn = "ecdsa_sign"
  /\ \E ec \in {EC} : \E sig \in SigInputs(ec) :
       call' = [fn |-> "ecdsa_verify",
                ret |-> ecdsa_verify(ec, signed.msg, Len(signed.msg), sig,
                                     key.pub, Len(key.pub), trick),
                sig |-> sig]
  /\ UNCHANGED <<curve, trick, blind, unblind, key, signed, frame, dh_vars,
               batch, par_vars>>

RecoverReturn(res, sig, param) ==
  call' = [fn |-> "ecdsa_recover", ret |-> res.ret, pub |-> res.pub,
           sig |-> sig, param |-> param]

Recover ==
  /\ key.ret = 1
  /\ signed.ret = 1
  /\ call.fn = "ecdsa_sign"
  /\ \E ec \in {EC} :
       \E sig \in {signed.sig, Malleated(ec, signed.sig)},
          param \in 0..MaxParam :
         RecoverReturn(ecdsa_recover(ec, signed.msg, Len(signed.msg), sig,
                                     param, key.compact), sig, param)
  /\ UNCHANGED <<curve, trick, blind, unblind, key, signed, frame, dh_vars,
               batch, par_vars>>

Next ==
  \/ Randomize
  \/ PubkeyCreate
  \/ Derive
  \/ TweakAdd
  \/ Sign
  \/ Verify
  \/ Recover

Spec == Init /\ [][Next]_vars

(***************************************************************************)
(* Key agreement: two parties, a and b, each create a key pair and derive  *)
(* from their own private key and the other's public key.                  *)
(***************************************************************************)

Parties == {"a", "b"}

Other(party) == IF party = "a" THEN "b" ELSE "a"

KeyOf(party) == IF party = "a" THEN key ELSE peer

\* Private key bytes for ecdh_pubkey_create, which clamps whatever it is
\* given.
MontPrivs == {<<b>> : b \in {0, 1, 7, 8, 77, 100, 128, 200, 255}}

InitDH ==
  /\ curve \in {"W23", "K163", "M127"}
  /\ trick = 0
  /\ blind = 0
  /\ unblind = [x |-> 0, y |-> 0, inf |-> 1]
  /\ key = NoKey
  /\ signed = NoSig
  /\ call = NoCall
  /\ frame = NoFrame
  /\ peer = NoKey
  /\ shared = [a |-> NoShared, b |-> NoShared]
  /\ batch = <<>>
  /\ rnd = Idle
  /\ mul = Idle

RandomizeDH ==
  /\ curve # "M127"
  /\ peer = NoKey
  /\ Randomize

PubkeyReturn(party, ret, priv, pub, compact, fn) ==
  /\ key' = IF party = "a"
            THEN [ret |-> ret, priv |-> priv, pub |-> pub,
                  compact |-> compact]
            ELSE key
  /\ peer' = IF party = "b"
             THEN [ret |-> ret, priv |-> priv, pub |-> pub,
                   compact |-> compact]
             ELSE peer
  /\ call' = [fn |-> fn, ret |-> ret, party |-> party]

EcdsaPubkeyCreateReturn(party, res, priv, compact) ==
  PubkeyReturn(party, res.ret, priv, res.pub, compact, "ecdsa_pubkey_create")

EcdsaPubkeyCreate(party) ==
  /\ curve # "M127"
  /\ KeyOf(party) = NoKey
  /\ \E ec \in {EC}, priv \in Privs(curve), compact \in {0, 1} :
       EcdsaPubkeyCreateReturn(party,
                               ecdsa_pubkey_create(ec, priv, compact, 0),
                               priv, compact)
  /\ UNCHANGED <<curve, trick, blind, unblind, signed, frame, shared, batch,
                 par_vars>>

DeriveDHReturn(party, res, compact, fn) ==
  /\ shared' = [shared EXCEPT ![party] = [ret |-> res.ret,
                                          secret |-> res.secret,
                                          compact |-> compact]]
  /\ call' = [fn |-> fn, ret |-> res.ret, party |-> party]

EcdsaDerive(party) ==
  /\ curve # "M127"
  /\ key.ret = 1
  /\ peer.ret = 1
  /\ shared[party] = NoShared
  /\ \E ec \in {EC}, compact \in {0, 1} :
       DeriveDHReturn(party,
                      ecdsa_derive(ec, KeyOf(Other(party)).pub,
                                   Len(KeyOf(Other(party)).pub),
                                   KeyOf(party).priv, compact, 0),
                      compact, "ecdsa_derive")
  /\ UNCHANGED <<curve, trick, blind, unblind, key, signed, frame, peer,
                 batch, par_vars>>

EcdhPubkeyCreateReturn(party, res, priv) ==
  PubkeyReturn(party, Not1(res.aborted), priv, res.pub, 0,
               "ecdh_pubkey_create")

EcdhPubkeyCreate(party) ==
  /\ curve = "M127"
  /\ KeyOf(party) = NoKey
  /\ \E ec \in {M127}, priv \in MontPrivs :
       EcdhPubkeyCreateReturn(party, ecdh_pubkey_create(ec, priv), priv)
  /\ UNCHANGED <<curve, trick, blind, unblind, signed, frame, shared, batch,
                 par_vars>>

EcdhDerive(party) ==
  /\ curve = "M127"
  /\ key.ret = 1
  /\ peer.ret = 1
  /\ shared[party] = NoShared
  /\ \E ec \in {M127} :
       DeriveDHReturn(party,
                      ecdh_derive(ec, KeyOf(Other(party)).pub,
                                  KeyOf(party).priv),
                      0, "ecdh_derive")
  /\ UNCHANGED <<curve, trick, blind, unblind, key, signed, frame, peer,
                 batch, par_vars>>

NextDH ==
  \/ RandomizeDH
  \/ \E party \in Parties : EcdsaPubkeyCreate(party)
  \/ \E party \in Parties : EcdsaDerive(party)
  \/ \E party \in Parties : EcdhPubkeyCreate(party)
  \/ \E party \in Parties : EcdhDerive(party)

SpecDH == InitDH /\ [][NextDH]_vars

(***************************************************************************)
(* Key agreement with a peer key of the other side's choosing: any byte    *)
(* string of the right length, on the Montgomery curves and on the         *)
(* Edwards curve.                                                          *)
(***************************************************************************)

X127 == mont_init(curve_x127)

ED127 == edwards_init(curve_ed127)

mont_curve(id) == IF id = "M127" THEN M127 ELSE X127

\* Every one byte string.
AnyPubs == {<<b>> : b \in 0..255}

\* What an uninitialised xge_t may hold.
XgeStack == {[x |-> 0, y |-> 0, z |-> 0, t |-> 0],
             [x |-> 0, y |-> 1, z |-> 1, t |-> 0]}

\* What hash_final may write for a private key.
Digests == {<<b, c>> : b \in {0, 8, 77, 255}, c \in {0, 200}}

InitAny ==
  /\ curve \in {"M127", "X127", "ED127"}
  /\ trick = 0
  /\ blind = 0
  /\ unblind = [x |-> 0, y |-> 0, inf |-> 1]
  /\ key = NoKey
  /\ signed = NoSig
  /\ call = NoCall
  /\ frame = NoFrame
  /\ peer = NoKey
  /\ shared = [a |-> NoShared, b |-> NoShared]
  /\ batch = <<>>
  /\ rnd = Idle
  /\ mul = Idle

DeriveAnyReturn(res, fn, pub, priv, imported) ==
  /\ call' = [fn |-> fn, ret |-> res.ret, pub |-> pub, priv |-> priv,
              secret |-> res.secret, imported |-> imported,
              point |-> res.point]
  /\ frame' = [fn |-> fn, locals |-> res.frame]

\* One call on a fresh context: what it returns does not depend on the
\* calls before it.
EcdhDeriveAny ==
  /\ curve \in {"M127", "X127"}
  /\ call = NoCall
  /\ \E ec \in {mont_curve(curve)}, pub \in AnyPubs, priv \in MontPrivs :
       DeriveAnyReturn(ecdh_derive(ec, pub, priv), "ecdh_derive", pub, priv,
                       1)
  /\ UNCHANGED <<curve, trick, blind, unblind, key, signed, dh_vars, batch,
                 par_vars>>

EddsaDeriveReturn(res, fn, pub, priv) ==
  DeriveAnyReturn(res, fn, pub, priv, res.imported)

EddsaDeriveWithScalar ==
  /\ curve = "ED127"
  /\ call = NoCall
  /\ \E ec \in {ED127}, pub \in AnyPubs, scalar \in MontPrivs,
        stack \in XgeStack :
       EddsaDeriveReturn(eddsa_derive_with_scalar(ec, pub, scalar, stack),
                         "eddsa_derive_with_scalar", pub, scalar)
  /\ UNCHANGED <<curve, trick, blind, unblind, key, signed, dh_vars, batch,
                 par_vars>>

EddsaDerive ==
  /\ curve = "ED127"
  /\ call = NoCall
  /\ \E ec \in {ED127}, pub \in AnyPubs, digest \in Digests,
        stack \in XgeStack :
       EddsaDeriveReturn(eddsa_derive(ec, pub, digest, stack),
                         "eddsa_derive", pub,
                         eddsa_privkey_convert(ec, digest))
  /\ UNCHANGED <<curve, trick, blind, unblind, key, signed, dh_vars, batch,
                 par_vars>>

NextAny == EcdhDeriveAny \/ EddsaDeriveWithScalar \/ EddsaDerive

SpecAny == InitAny /\ [][NextAny]_vars

(***************************************************************************)
(* Point import: wge_import on byte strings of every length up to one past *)
(* the longest encoding, with every prefix byte around the valid ones.     *)
(***************************************************************************)

\* Prefix bytes: the five of SEC1, their neighbours and the extremes.
Forms == {0, 1, 2, 3, 4, 5, 6, 7, 8, 130, 255}

\* Coordinate bytes: below, at and past the modulus.
Coords(id) ==
  IF id = "W23" THEN 0..25 \cup {255}
  ELSE {0, 1, 2, 3, 4, 34, 129, 160, 161, 162, 163, 164, 255}

\* The y bytes tried with each x: all of them on the small curve.
YCoords(id) == IF id = "W23" THEN 0..25 \cup {255} ELSE 0..255

ImportInputs(id) ==
  {<<>>}
  \cup {<<f>> : f \in Forms}
  \cup {<<f, x>> : f \in Forms, x \in YCoords(id)}
  \cup {<<f, x, y>> : f \in Forms, x \in Coords(id), y \in YCoords(id)}
  \cup {<<f, x, y, 0>> : f \in {2, 4, 6}, x \in {1, 2}, y \in {6, 34}}

InitImport ==
  /\ curve \in {"W23", "K163"}
  /\ trick = 0
  /\ blind = 0
  /\ unblind = [x |-> 0, y |-> 0, inf |-> 1]
  /\ key = NoKey
  /\ signed = NoSig
  /\ call = NoCall
  /\ frame = NoFrame
  /\ peer = NoKey
  /\ shared = [a |-> NoShared, b |-> NoShared]
  /\ batch = <<>>
  /\ rnd = Idle
  /\ mul = Idle

WgeImportReturn(res, raw) ==
  call' = [fn |-> "wge_import", ret |-> res.ret, raw |-> raw,
           point |-> res.r]

\* One call: what wge_import returns depends on its arguments alone.
WgeImport ==
  /\ call = NoCall
  /\ \E ec \in {EC}, raw \in ImportInputs(curve) :
       WgeImportReturn(wge_import(ec, raw, Len(raw)), raw)
  /\ UNCHANGED <<curve, trick, blind, unblind, key, signed, frame, dh_vars,
                 batch, par_vars>>

NextImport == WgeImport

SpecImport == InitImport /\ [][NextImport]_vars

(***************************************************************************)
(* The group law: the unified additions on every point of the curve, in    *)
(* several Jacobian representations.                                       *)
(***************************************************************************)

\* Every affine point of the curve, and the point at infinity.
Points(ec) ==
  {pt \in [x : 0..(ec.fe.p - 1), y : 0..(ec.fe.p - 1), inf : {0}] :
     (pt.y * pt.y) % ec.fe.p
       = (pt.x * pt.x * pt.x + ec.a * pt.x + ec.b) % ec.fe.p}
  \cup {wge_zero(ec)}

\* The z coordinates the representations are scaled by.
Scales(ec) == {1, 2, ec.fe.p - 1}

\* The Jacobian point (x z^2, y z^3, z) of an affine point.
jge_scaled(ec, p, z) ==
  IF p.inf = 1 THEN jge_zero(ec)
  ELSE [x |-> fe_mul(ec.fe, p.x, fe_sqr(ec.fe, z)),
        y |-> fe_mul(ec.fe, p.y, fe_mul(ec.fe, fe_sqr(ec.fe, z), z)),
        z |-> z]

InitGroup ==
  /\ curve \in {"W23", "K163"}
  /\ trick = 0
  /\ blind = 0
  /\ unblind = [x |-> 0, y |-> 0, inf |-> 1]
  /\ key = NoKey
  /\ signed = NoSig
  /\ call = NoCall
  /\ frame = NoFrame
  /\ peer = NoKey
  /\ shared = [a |-> NoShared, b |-> NoShared]
  /\ batch = <<>>
  /\ rnd = Idle
  /\ mul = Idle

\* jge_add on (P, P), (P, -P), (O, P), (P, O) and (P + -P, P), and jge_dbl
\* on P, for the representations a and b of P.
JgeAddReturn(ec, pt, a, b) ==
  call' = [fn |-> "jge_add", p |-> pt, a |-> a, b |-> b,
           pp |-> jge_add(ec, a, b),
           pn |-> jge_add(ec, a, jge_neg(ec, b)),
           op |-> jge_add(ec, jge_zero(ec), b),
           po |-> jge_add(ec, a, jge_zero(ec)),
           zp |-> jge_add(ec, jge_add(ec, a, jge_neg(ec, b)), b),
           dbl |-> jge_dbl(ec, a)]

JgeAdd ==
  /\ call = NoCall
  /\ \E ec \in {EC}, pt \in Points(EC), z1 \in Scales(EC), z2 \in Scales(EC) :
       JgeAddReturn(ec, pt, jge_scaled(ec, pt, z1), jge_scaled(ec, pt, z2))
  /\ UNCHANGED <<curve, trick, blind, unblind, key, signed, frame, dh_vars,
                 batch, par_vars>>

\* jge_mixed_add on the same pairs, the second operand affine.
JgeMixedAddReturn(ec, pt, a) ==
  call' = [fn |-> "jge_mixed_add", p |-> pt, a |-> a, b |-> pt,
           pp |-> jge_mixed_add(ec, a, pt),
           pn |-> jge_mixed_add(ec, a, wge_neg(ec, pt)),
           op |-> jge_mixed_add(ec, jge_zero(ec), pt),
           po |-> jge_mixed_add(ec, a, wge_zero(ec)),
           zp |-> jge_mixed_add(ec, jge_mixed_add(ec, a, wge_neg(ec, pt)),
                                pt),
           dbl |-> jge_dbl(ec, a)]

JgeMixedAdd ==
  /\ call = NoCall
  /\ \E ec \in {EC}, pt \in Points(EC), z1 \in Scales(EC) :
       JgeMixedAddReturn(ec, pt, jge_scaled(ec, pt, z1))
  /\ UNCHANGED <<curve, trick, blind, unblind, key, signed, frame, dh_vars,
                 batch, par_vars>>

NextGroup == JgeAdd \/ JgeMixedAdd

SpecGroup == InitGroup /\ [][NextGroup]_vars

(***************************************************************************)
(* Variable-base multiplication: two products of one point and the product *)
(* by the sum of the two scalars, on each multiplication path.             *)
(***************************************************************************)

\* The scalars next to 0 and to the order that are paired with every scalar
\* on the eight-bit curves.
MulSpan == 2

\* The x coordinates up to which points are taken.
MaxMulX == 5

mul_curve(id) == IF id = "K163E" THEN K163E ELSE wei_curve(id)

MulPoints(ec) == {pt \in Points(ec) : pt.inf = 1 \/ pt.x <= MaxMulX}

\* The points xge_import accepts, by their x coordinates.
XgePoints(ec) ==
  {pt \in {xge_import(ec, <<b>>, xge_zero(ec)).r :
             b \in {c \in 0..255 :
                      xge_import(ec, <<c>>, xge_zero(ec)).ret = 1}} :
     pt.x <= MaxMulX}

\* The second scalars paired with k1: all of them on the five-bit orders.
MulScalars(sc, k1) ==
  {k2 \in 0..(sc.n - 1) :
     \/ sc.bits <= 5
     \/ k2 <= MulSpan
     \/ k2 >= sc.n - MulSpan
     \/ (k1 + k2) % sc.n <= MulSpan
     \/ (k1 + k2) % sc.n >= sc.n - MulSpan}

InitMul ==
  /\ curve \in {"W23", "K163", "K163E", "ED127"}
  /\ trick = 0
  /\ blind = 0
  /\ unblind = [x |-> 0, y |-> 0, inf |-> 1]
  /\ key = NoKey
  /\ signed = NoSig
  /\ call = NoCall
  /\ frame = NoFrame
  /\ peer = NoKey
  /\ shared = [a |-> NoShared, b |-> NoShared]
  /\ batch = <<>>
  /\ rnd = Idle
  /\ mul = Idle

\* The products a = k1 * P and b = k2 * P, their sum, and r = (k1 + k2) * P
\* with the sum of the scalars reduced by sc_add.
WeiMulReturn(ec, fn, pt, k1, k2, a, b, r) ==
  call' = [fn |-> fn, p |-> pt, k1 |-> k1, k2 |-> k2,
           a |-> jge_to_wge(ec, a),
           b |-> jge_to_wge(ec, b),
           r |-> jge_to_wge(ec, r),
           sum |-> jge_to_wge(ec, jge_add(ec, a, b)),
           eq |-> jge_equal(ec, jge_add(ec, a, b), r)]

WeiJmulNormal ==
  /\ call = NoCall
  /\ curve \in {"W23", "K163"}
  /\ \E ec \in {mul_curve(curve)} :
       \E pt \in MulPoints(ec), k1 \in 0..(ec.sc.n - 1) :
         \E k2 \in MulScalars(ec.sc, k1) :
           WeiMulReturn(ec, "wei_jmul_normal", pt, k1, k2,
                        wei_jmul_normal(ec, pt, k1),
                        wei_jmul_normal(ec, pt, k2),
                        wei_jmul_normal(ec, pt, sc_add(ec.sc, k1, k2)))
  /\ UNCHANGED <<curve, trick, blind, unblind, key, signed, frame, dh_vars,
                 batch, par_vars>>

WeiJmulEndo ==
  /\ call = NoCall
  /\ curve = "K163E"
  /\ \E ec \in {mul_curve(curve)} :
       \E pt \in MulPoints(ec), k1 \in 0..(ec.sc.n - 1) :
         \E k2 \in MulScalars(ec.sc, k1) :
           WeiMulReturn(ec, "wei_jmul_endo", pt, k1, k2,
                        wei_jmul_endo(ec, pt, k1),
                        wei_jmul_endo(ec, pt, k2),
                        wei_jmul_endo(ec, pt, sc_add(ec.sc, k1, k2)))
  /\ UNCHANGED <<curve, trick, blind, unblind, key, signed, frame, dh_vars,
                 batch, par_vars>>

\* The same on the Edwards curve; u is the product by k1 + k2 as the
\* integers add, which the scalar's limbs hold.
EdwardsMulReturn(ec, pt, k1, k2, a, b, r, u) ==
  call' = [fn |-> "edwards_mul", p |-> pt, k1 |-> k1, k2 |-> k2,
           a |-> a, b |-> b, r |-> r,
           sum |-> xge_add(ec, a, b),
           eq |-> xge_equal(ec, xge_add(ec, a, b), r),
           equ |-> xge_equal(ec, xge_add(ec, a, b), u)]

EdwardsMul ==
  /\ call = NoCall
  /\ curve = "ED127"
  /\ \E ec \in {ED127} :
       \E pt \in XgePoints(ec), k1 \in 0..(ec.sc.n - 1) :
         \E k2 \in MulScalars(ec.sc, k1) :
           EdwardsMulReturn(ec, pt, k1, k2,
                            edwards_mul(ec, pt, k1),
                            edwards_mul(ec, pt, k2),
                            edwards_mul(ec, pt, sc_add(ec.sc, k1, k2)),
                            edwards_mul(ec, pt, k1 + k2))
  /\ UNCHANGED <<curve, trick, blind, unblind, key, signed, frame, dh_vars,
                 batch, par_vars>>

NextMul == WeiJmulNormal \/ WeiJmulEndo \/ EdwardsMul

SpecMul == InitMul /\ [][NextMul]_vars

(***************************************************************************)
(* The Montgomery ladder beside the Edwards multiplication: the base point *)
(* of the Montgomery curve and the base point of the isomorphic Edwards    *)
(* curve, multiplied by one scalar.                                        *)
(***************************************************************************)

\* The scalars mont_mul reads whole: fe.bits bits.
LadderScalars(ec) == 0..(Pow2(ec.fe.bits) - 1)

InitIso ==
  /\ curve = "X127"
  /\ trick = 0
  /\ blind = 0
  /\ unblind = [x |-> 0, y |-> 0, inf |-> 1]
  /\ key = NoKey
  /\ signed = NoSig
  /\ call = NoCall
  /\ frame = NoFrame
  /\ peer = NoKey
  /\ shared = [a |-> NoShared, b |-> NoShared]
  /\ batch = <<>>
  /\ rnd = Idle
  /\ mul = Idle

\* u = k * G on the ladder, ed = k * G on the Edwards curve, back = ed
\* mapped to the Montgomery curve.
MontMulGReturn(k, u, ed) ==
  call' = [fn |-> "mont_mul_g", k |-> k, u |-> u,
           raw |-> pge_export(X127, u),
           ed |-> ed,
           back |-> xge_to_mge(ED127, ed)]

MontMulG ==
  /\ call = NoCall
  /\ \E k \in LadderScalars(X127) :
       MontMulGReturn(k, mont_mul_g(X127, k), edwards_mul(ED127, ED127.g, k))
  /\ UNCHANGED <<curve, trick, blind, unblind, key, signed, frame, dh_vars,
                 batch, par_vars>>

NextIso == MontMulG

SpecIso == InitIso /\ [][NextIso]_vars

(***************************************************************************)
(* Hashing a point to a byte string and back.  What the generator gives    *)
(* the loop of wei_point_to_hash is an input: the field element drawn and  *)
(* the hint.                                                               *)
(***************************************************************************)

\* The x coordinates up to which points are hashed.
MaxHashX == 6

HashPoints(ec) == {pt \in Points(ec) : pt.inf = 1 \/ pt.x <= MaxHashX}

Draws == {<<b>> : b \in 0..255}

\* The hints: the two bits that pick the preimage, and the bits that fill
\* the top byte.
Hints == {r + 256 * t : r \in 0..3, t \in {0, 255}}

InitHash ==
  /\ curve \in {"W23", "K163"}
  /\ trick = 0
  /\ blind = 0
  /\ unblind = [x |-> 0, y |-> 0, inf |-> 1]
  /\ key = NoKey
  /\ signed = NoSig
  /\ call = NoCall
  /\ frame = NoFrame
  /\ peer = NoKey
  /\ shared = [a |-> NoShared, b |-> NoShared]
  /\ batch = <<>>
  /\ rnd = Idle
  /\ mul = Idle

\* The turn of the loop that ends it, and wei_point_from_hash on what it
\* wrote; a turn that does not end the loop leaves nothing behind.
PointToHashReturn(ec, pt, hint, turn) ==
  IF turn.done = 1
  THEN call' = [fn |-> "wei_point_to_hash", p |-> pt, hint |-> hint,
                bytes |-> turn.bytes,
                back |-> wei_point_from_hash(ec, turn.bytes)]
  ELSE call' = call

PointToHash ==
  /\ call = NoCall
  /\ \E ec \in {EC}, pt \in HashPoints(EC), draw \in Draws, hint \in Hints :
       PointToHashReturn(ec, pt, hint,
                         wei_point_to_hash_turn(ec, pt, draw, hint))
  /\ UNCHANGED <<curve, trick, blind, unblind, key, signed, frame, dh_vars,
                 batch, par_vars>>

NextHash == PointToHash

SpecHash == InitHash /\ [][NextHash]_vars

(***************************************************************************)
(* Scalar inversion, on every scalar of each order.                        *)
(***************************************************************************)

InitScalar ==
  /\ curve \in {"W23", "K163"}
  /\ trick = 0
  /\ blind = 0
  /\ unblind = [x |-> 0, y |-> 0, inf |-> 1]
  /\ key = NoKey
  /\ signed = NoSig
  /\ call = NoCall
  /\ frame = NoFrame
  /\ peer = NoKey
  /\ shared = [a |-> NoShared, b |-> NoShared]
  /\ batch = <<>>
  /\ rnd = Idle
  /\ mul = Idle

\* sc_invert on a, and again on what it gave.
ScInvertReturn(sc, a, res) ==
  call' = [fn |-> "sc_invert", a |-> a, ret |-> res.ret, r |-> res.r,
           back |-> sc_invert(sc, res.r)]

ScInvert ==
  /\ call = NoCall
  /\ \E sc \in {EC.sc}, a \in 0..(EC.sc.n - 1) :
       ScInvertReturn(sc, a, sc_invert(sc, a))
  /\ UNCHANGED <<curve, trick, blind, unblind, key, signed, frame, dh_vars,
                 batch, par_vars>>

NextScalar == ScInvert

SpecScalar == InitScalar /\ [][NextScalar]_vars

(***************************************************************************)
(* Blinding: a context that is randomized any number of times, between     *)
(* fixed-base multiplications.                                             *)
(***************************************************************************)

\* What the generator gives sc_random: a scalar it rejects first, then a
\* blinding scalar.
BlindEntropy(sc) ==
  {<<<<0>>, <<1>>>>, <<<<sc.n>>, <<sc.n - 1>>>>, <<<<sc.n \div 2>>>>,
   <<<<3>>>>}

\* The Edwards context with its blinding pair.
ED == [ED127 EXCEPT !.blind = blind, !.unblind = unblind]

InitBlind ==
  /\ curve \in {"W23", "K163", "ED127"}
  /\ trick = 0
  /\ blind = 0
  /\ unblind = IF curve = "ED127" THEN ED127.unblind
               ELSE wei_curve(curve).unblind
  /\ key = NoKey
  /\ signed = NoSig
  /\ call = NoCall
  /\ frame = NoFrame
  /\ peer = NoKey
  /\ shared = [a |-> NoShared, b |-> NoShared]
  /\ batch = <<>>
  /\ rnd = Idle
  /\ mul = Idle

RandomizeAgainReturn(fn, res) ==
  /\ res.done = 1
  /\ blind' = res.blind
  /\ unblind' = res.unblind
  /\ call' = [fn |-> fn, ret |-> 1]

WeiRandomize ==
  /\ curve \in {"W23", "K163"}
  /\ \E ec \in {EC}, rng \in BlindEntropy(EC.sc) :
       RandomizeAgainReturn("wei_randomize", wei_randomize(ec, rng))
  /\ UNCHANGED <<curve, trick, key, signed, frame, dh_vars, batch, par_vars>>

EdwardsRandomize ==
  /\ curve = "ED127"
  /\ \E ec \in {ED}, rng \in BlindEntropy(ED.sc) :
       RandomizeAgainReturn("edwards_randomize", edwards_randomize(ec, rng))
  /\ UNCHANGED <<curve, trick, key, signed, frame, dh_vars, batch, par_vars>>

WeiJmulG ==
  /\ curve \in {"W23", "K163"}
  /\ \E ec \in {EC}, k \in 0..(EC.sc.n - 1) :
       call' = [fn |-> "wei_jmul_g", k |-> k,
                r |-> jge_to_wge(ec, wei_jmul_g(ec, k))]
  /\ UNCHANGED <<curve, trick, blind, unblind, key, signed, frame, dh_vars,
                 batch, par_vars>>

EdwardsMulG ==
  /\ curve = "ED127"
  /\ \E ec \in {ED}, k \in 0..(ED.sc.n - 1) :
       call' = [fn |-> "edwards_mul_g", k |-> k, r |-> edwards_mul_g(ec, k)]
  /\ UNCHANGED <<curve, trick, blind, unblind, key, signed, frame, dh_vars,
                 batch, par_vars>>

NextBlind == WeiRandomize \/ EdwardsRandomize \/ WeiJmulG \/ EdwardsMulG

SpecBlind == InitBlind /\ [][NextBlind]_vars

(***************************************************************************)
(* Batch verification: the caller collects a batch of any length up to    *)
(* MaxBatch and has it verified.  The batch alternates two signatures the *)
(* scheme accepts, and its last item may be spoiled.                       *)
(***************************************************************************)

MaxBatch == 34

\* The generator's output while the coefficient of item i is drawn: a
\* rejected zero, then a scalar.
BatchRng(i) == <<<<0>>, <<1 + (i % 7)>>>>

BatchItem(sig, pub, hash) ==
  [sig |-> sig, pub |-> pub, hash |-> hash, rng |-> <<>>]

\* Two signatures by the key of the base point, for each curve and scheme.
SignedItems(id, fn) ==
  IF id = "ED127"
  THEN <<BatchItem(<<3, 16>>, <<74>>, <<3, 0>>),
         BatchItem(<<4, 14>>, <<202>>, <<3, 0>>)>>
  ELSE IF id = "W23"
  THEN IF fn = "schnorr_verify_batch"
       THEN <<BatchItem(<<1, 4>>, <<1>>, <<3>>),
              BatchItem(<<6, 7>>, <<1>>, <<3>>)>>
       ELSE <<BatchItem(<<1, 4>>, <<2, 1>>, <<3>>),
              BatchItem(<<6, 7>>, <<4, 1, 6>>, <<3>>)>>
  ELSE IF fn = "schnorr_verify_batch"
       THEN <<BatchItem(<<2, 4>>, <<2>>, <<3>>),
              BatchItem(<<5, 89>>, <<2>>, <<3>>)>>
       ELSE <<BatchItem(<<2, 4>>, <<2, 2>>, <<3>>),
              BatchItem(<<5, 89>>, <<4, 2, 34>>, <<3>>)>>

\* An item with R, the key or s out of range, or with another s, with the
\* R of the other signature, or with the digest of another message.
Spoiled(it, other, how) ==
  IF how = "R" THEN [it EXCEPT !.sig[1] = 255]
  ELSE IF how = "A" THEN [it EXCEPT !.pub = [i \in 1..Len(@) |-> 255]]
  ELSE IF how = "s" THEN [it EXCEPT !.sig[2] = 255]
  ELSE IF how = "r" THEN [it EXCEPT !.sig[1] = other.sig[1]]
  ELSE IF how = "msg" THEN [it EXCEPT !.hash[1] = @ + 1]
  ELSE [it EXCEPT !.sig[2] = @ + 1]

BatchSchemes(id) ==
  IF id = "ED127" THEN {"eddsa_verify_batch"}
  ELSE {"schnorr_verify_batch", "ecdsa_schnorr_verify_batch"}

\* The position of the spoiled item: none, or the last.
SpoiledAt(len) == {0, len}

Batches(id) ==
  {[i \in 1..len |->
      [(IF i = at THEN Spoiled(SignedItems(id, fn)[1],
                               SignedItems(id, fn)[2], how)
        ELSE SignedItems(id, fn)[2 - (i % 2)]) EXCEPT !.rng = BatchRng(i)]] :
     <<fn, len, at, how>> \in
       {q \in BatchSchemes(id) \X (0..MaxBatch) \X (0..MaxBatch)
                \X {"R", "A", "s", "r", "msg", "forged"} :
          q[3] \in SpoiledAt(q[2]) /\ (q[3] = 0 => q[4] = "R")}}

InitBatch ==
  /\ curve \in {"W23", "K163E", "ED127"}
  /\ trick = 0
  /\ blind = 0
  /\ unblind = IF curve = "ED127" THEN ED127.unblind
               ELSE mul_curve(curve).unblind
  /\ key = NoKey
  /\ signed = NoSig
  /\ call = NoCall
  /\ frame = NoFrame
  /\ peer = NoKey
  /\ shared = [a |-> NoShared, b |-> NoShared]
  /\ batch \in Batches(curve)
  /\ rnd = Idle
  /\ mul = Idle

VerifyBatchReturn(fn, st) ==
  call' = [fn |-> fn, at |-> st.at, ret |-> st.ret, calls |-> st.calls,
           weights |-> st.weights]

\* pubs[i] holds fe->size bytes.
SchnorrVerifyBatch ==
  /\ curve \in {"W23", "K163E"}
  /\ call = NoCall
  /\ \A i \in 1..Len(batch) : Len(batch[i].pub) = mul_curve(curve).fe.size
  /\ VerifyBatchReturn("schnorr_verify_batch",
       schnorr_verify_batch(mul_curve(curve), batch, Len(batch)))
  /\ UNCHANGED <<curve, trick, blind, unblind, key, signed, frame, dh_vars,
                 batch, par_vars>>

EcdsaSchnorrVerifyBatch ==
  /\ curve \in {"W23", "K163E"}
  /\ call = NoCall
  /\ VerifyBatchReturn("ecdsa_schnorr_verify_batch",
       ecdsa_schnorr_verify_batch(mul_curve(curve), batch, Len(batch)))
  /\ UNCHANGED <<curve, trick, blind, unblind, key, signed, frame, dh_vars,
                 batch, par_vars>>

EddsaVerifyBatch ==
  /\ curve = "ED127"
  /\ call = NoCall
  /\ VerifyBatchReturn("eddsa_verify_batch",
       eddsa_verify_batch(ED127, batch, Len(batch)))
  /\ UNCHANGED <<curve, trick, blind, unblind, key, signed, frame, dh_vars,
                 batch, par_vars>>

NextBatch ==
  SchnorrVerifyBatch \/ EcdsaSchnorrVerifyBatch \/ EddsaVerifyBatch

SpecBatch == InitBatch /\ [][NextBatch]_vars

(***************************************************************************)
(* The additions on pairs of points: every pair (P, Q) of points of the    *)
(* curve, the point at infinity included, in representations scaled by     *)
(* the pairs of PairScales, added by the constant-time and by the          *)
(* variable-time functions.                                                *)
(***************************************************************************)

PairScales(ec) == {<<1, 1>>, <<2, ec.fe.p - 1>>, <<ec.fe.p - 2, 3>>}

JgePairReturn(fn, a, b, r) == call' = [fn |-> fn, a |-> a, b |-> b, r |-> r]

JgeAddPair ==
  /\ call = NoCall
  /\ \E ec \in {EC}, p1 \in Points(EC), p2 \in Points(EC),
         z \in PairScales(EC) :
       LET a == jge_scaled(ec, p1, z[1])
           b == jge_scaled(ec, p2, z[2])
       IN JgePairReturn("jge_add", a, b, jge_add_full(ec, a, b))
  /\ UNCHANGED <<curve, trick, blind, unblind, key, signed, frame, dh_vars,
                 batch, par_vars>>

JgeAddVarPair ==
  /\ call = NoCall
  /\ \E ec \in {EC}, p1 \in Points(EC), p2 \in Points(EC),
         z \in PairScales(EC) :
       LET a == jge_scaled(ec, p1, z[1])
           b == jge_scaled(ec, p2, z[2])
       IN JgePairReturn("jge_add_var", a, b, jge_add_var(ec, a, b))
  /\ UNCHANGED <<curve, trick, blind, unblind, key, signed, frame, dh_vars,
                 batch, par_vars>>

JgeMixedAddPair ==
  /\ call = NoCall
  /\ \E ec \in {EC}, p1 \in Points(EC), p2 \in Points(EC),
         z \in PairScales(EC) :
       LET a == jge_scaled(ec, p1, z[1])
       IN JgePairReturn("jge_mixed_add", a, p2,
                        jge_mixed_add_full(ec, a, p2))
  /\ UNCHANGED <<curve, trick, blind, unblind, key, signed, frame, dh_vars,
                 batch, par_vars>>

JgeMixedAddVarPair ==
  /\ call = NoCall
  /\ \E ec \in {EC}, p1 \in Points(EC), p2 \in Points(EC),
         z \in PairScales(EC) :
       LET a == jge_scaled(ec, p1, z[1])
       IN JgePairReturn("jge_mixed_add_var", a, p2,
                        jge_mixed_add_var(ec, a, p2))
  /\ UNCHANGED <<curve, trick, blind, unblind, key, signed, frame, dh_vars,
                 batch, par_vars>>

NextPair ==
  JgeAddPair \/ JgeAddVarPair \/ JgeMixedAddPair \/ JgeMixedAddVarPair

SpecPair == InitGroup /\ [][NextPair]_vars

(***************************************************************************)
(* The last step of ecdsa_verify in its two builds: the comparison of      *)
(* x(R) mod n with r, on every point R of the curve in the scalings of     *)
(* Scales and every r below n, and the whole verification on every key of  *)
(* the curve.  H31 has p / n > 4, so that the loop has to add n * z^2 up   *)
(* to four times.                                                          *)
(***************************************************************************)

InitEqualR ==
  /\ curve \in {"W23", "K163", "H31"}
  /\ trick \in {0, 1}
  /\ blind = 0
  /\ unblind = [x |-> 0, y |-> 0, inf |-> 1]
  /\ key = NoKey
  /\ signed = NoSig
  /\ call = NoCall
  /\ frame = NoFrame
  /\ peer = NoKey
  /\ shared = [a |-> NoShared, b |-> NoShared]
  /\ batch = <<>>
  /\ rnd = Idle
  /\ mul = Idle

JgeEqualR ==
  /\ trick = 1
  /\ call = NoCall
  /\ \E ec \in {EC}, pt \in Points(EC), z \in Scales(EC),
         r \in 0..(EC.sc.n - 1) :
       call' = [fn |-> "jge_equal_r", p |-> jge_scaled(ec, pt, z), r |-> r,
                res |-> jge_equal_r_counted(ec, jge_scaled(ec, pt, z), r)]
  /\ UNCHANGED <<curve, trick, blind, unblind, key, signed, frame, dh_vars,
                 batch, par_vars>>

JgeAffineR ==
  /\ trick = 0
  /\ call = NoCall
  /\ \E ec \in {EC}, pt \in Points(EC), z \in Scales(EC),
         r \in 0..(EC.sc.n - 1) :
       call' = [fn |-> "jge_affine_r", p |-> jge_scaled(ec, pt, z), r |-> r,
                res |-> [ret |-> jge_affine_r(ec, jge_scaled(ec, pt, z), r),
                         adds |-> 0]]
  /\ UNCHANGED <<curve, trick, blind, unblind, key, signed, frame, dh_vars,
                 batch, par_vars>>

\* The keys of the verification: every finite point, compressed.
VerifyPubs(ec) ==
  {<<2 + (pt.y % 2), pt.x>> : pt \in Points(ec) \ {wge_zero(ec)}}

VerifySigs(ec) == {<<r, s>> : r \in 0..ec.sc.n, s \in 1..(ec.sc.n \div 2)}

EcdsaVerifyR ==
  /\ curve \in {"W23", "H31"}
  /\ call = NoCall
  /\ \E ec \in {EC}, msg \in {<<>>, <<128>>, <<77>>}, sig \in VerifySigs(EC),
         pub \in VerifyPubs(EC) :
       call' = [fn |-> "ecdsa_verify", msg |-> msg, sig |-> sig, pub |-> pub,
                ret |-> ecdsa_verify(ec, msg, Len(msg), sig, pub, Len(pub),
                                     trick)]
  /\ UNCHANGED <<curve, trick, blind, unblind, key, signed, frame, dh_vars,
                 batch, par_vars>>

\* jge_equal_r statement by statement: the call up to the loop, then one
\* iteration of the loop at a time.
JgeEqualREnter ==
  /\ trick = 1
  /\ call = NoCall
  /\ \E ec \in {EC}, pt \in Points(EC), z \in Scales(EC),
         r \in 0..(EC.sc.n - 1) :
       call' = [fn |-> "jge_equal_r", p |-> jge_scaled(ec, pt, z), r |-> r,
                res |-> jge_equal_r_enter(ec, jge_scaled(ec, pt, z), r)]
  /\ UNCHANGED <<curve, trick, blind, unblind, key, signed, frame, dh_vars,
                 batch, par_vars>>

JgeEqualRIterate ==
  /\ call.fn = "jge_equal_r"
  /\ call.res.pc = "loop"
  /\ call' = [call EXCEPT !.res = jge_equal_r_iter(EC, call.p, call.res)]
  /\ UNCHANGED <<curve, trick, blind, unblind, key, signed, frame, dh_vars,
                 batch, par_vars>>

NextEqualR == JgeEqualR \/ JgeAffineR \/ EcdsaVerifyR

SpecEqualR == InitEqualR /\ [][NextEqualR]_vars

NextLoop == JgeEqualREnter \/ JgeEqualRIterate

\* The thread inside the loop goes on running.
SpecLoop == InitEqualR /\ [][NextLoop]_vars /\ WF_vars(JgeEqualRIterate)

(***************************************************************************)
(* The double multiplication k1 * G + k2 * P, by interleaved NAFs on W23   *)
(* and K163 and with the endomorphism on K163E.  On the eight-bit curves   *)
(* k1 is any scalar and k2 one within MulSpan of 0 and of n or within 1 of *)
(* a power of two, and P a point of MulPoints.                             *)
(***************************************************************************)

DoubleScalars(sc) ==
  {k \in 0..(sc.n - 1) :
     \/ sc.bits <= 5
     \/ k <= MulSpan
     \/ k >= sc.n - MulSpan
     \/ \E b \in 2..sc.bits : k \in (Pow2(b) - 1)..(Pow2(b) + 1)}

InitDouble ==
  /\ curve \in {"W23", "K163", "K163E"}
  /\ trick = 0
  /\ blind = 0
  /\ unblind = [x |-> 0, y |-> 0, inf |-> 1]
  /\ key = NoKey
  /\ signed = NoSig
  /\ call = NoCall
  /\ frame = NoFrame
  /\ peer = NoKey
  /\ shared = [a |-> NoShared, b |-> NoShared]
  /\ batch = <<>>
  /\ rnd = Idle
  /\ mul = Idle

WeiJmulDoubleReturn(fn, pt, k1, k2, res) ==
  call' = [fn |-> fn, p |-> pt, k1 |-> k1, k2 |-> k2, abort |-> res.abort,
           r |-> res.r, max |-> res.max, dbls |-> res.dbls]

WeiJmulDoubleNormalVar ==
  /\ call = NoCall
  /\ curve \in {"W23", "K163"}
  /\ \E ec \in {mul_curve(curve)} :
       \E pt \in MulPoints(ec), k1 \in 0..(ec.sc.n - 1),
          k2 \in DoubleScalars(ec.sc) :
         WeiJmulDoubleReturn("wei_jmul_double_normal_var", pt, k1, k2,
                             wei_jmul_double_normal_full(ec, k1, pt, k2))
  /\ UNCHANGED <<curve, trick, blind, unblind, key, signed, frame, dh_vars,
                 batch, par_vars>>

WeiJmulDoubleEndoVar ==
  /\ call = NoCall
  /\ curve = "K163E"
  /\ \E ec \in {mul_curve(curve)} :
       \E pt \in MulPoints(ec), k1 \in 0..(ec.sc.n - 1),
          k2 \in DoubleScalars(ec.sc) :
         WeiJmulDoubleReturn("wei_jmul_double_endo_var", pt, k1, k2,
                             wei_jmul_double_endo_full(ec, k1, pt, k2))
  /\ UNCHANGED <<curve, trick, blind, unblind, key, signed, frame, dh_vars,
                 batch, par_vars>>

NextDouble == WeiJmulDoubleNormalVar \/ WeiJmulDoubleEndoVar

SpecDouble == InitDouble /\ [][NextDouble]_vars

(***************************************************************************)
(* One EdDSA item verified as a batch of one and by the verification with  *)
(* cofactor multiplication.  R ranges over every byte; the key over the    *)
(* neutral point, points of order 2, 4, 8, 17, 34, 68 and 136 and a byte   *)
(* that is no point; s over scalars in and out of range.                   *)
(***************************************************************************)

SingleKeys == {1, 126, 128, 36, 202, 181, 150, 144, 2}

SingleS == {0, 1, 9, 16, 17}

SingleDigests == {<<0, 0>>, <<1, 0>>, <<3, 0>>}

SingleItems ==
  {[sig |-> <<R, s>>, pub |-> <<A>>, hash |-> e, rng |-> BatchRng(1)] :
     <<R, A, s, e>> \in (0..255) \X SingleKeys \X SingleS \X SingleDigests}

InitSingle ==
  /\ curve = "ED127"
  /\ trick = 0
  /\ blind = 0
  /\ unblind = ED127.unblind
  /\ key = NoKey
  /\ signed = NoSig
  /\ call = NoCall
  /\ frame = NoFrame
  /\ peer = NoKey
  /\ shared = [a |-> NoShared, b |-> NoShared]
  /\ batch \in {<<it>> : it \in SingleItems}
  /\ rnd = Idle
  /\ mul = Idle

EddsaVerifySingle ==
  /\ curve = "ED127"
  /\ call = NoCall
  /\ Len(batch) = 1
  /\ call' = [fn |-> "eddsa_verify_single",
              ret |-> eddsa_verify_single(ED127, batch[1].sig, batch[1].pub,
                                          batch[1].hash)]
  /\ UNCHANGED <<curve, trick, blind, unblind, key, signed, frame, dh_vars,
                 batch, par_vars>>

NextSingle == EddsaVerifyBatch \/ EddsaVerifySingle

SpecSingle == InitSingle /\ [][NextSingle]_vars

(***************************************************************************)
(* Key tweaking with a caller's tweak: one call of a tweak function on a   *)
(* fresh context, for keys that import and keys that do not, and for       *)
(* tweaks below the order, equal to it and past it.                        *)
(***************************************************************************)
InitTweak ==
  /\ curve \in {"W23", "K163", "ED127"}
  /\ trick = 0
  /\ blind = 0
  /\ unblind = [x |-> 0, y |-> 0, inf |-> 1]
  /\ key = NoKey
  /\ signed = NoSig
  /\ call = NoCall
  /\ frame = NoFrame
  /\ peer = NoKey
  /\ shared = [a |-> NoShared, b |-> NoShared]
  /\ batch = <<>>
  /\ rnd = Idle
  /\ mul = Idle

\* x-only public keys: the keys of valid private keys, and encodings
\* wge_import_x refuses.
PeerPubsX(ec) ==
  {schnorr_pubkey_create(ec, b).pub : b \in {<<2>>, <<3>>}}
  \cup {<<255>>, <<ec.fe.p>>}

TweakReturn(res, fn, pub, tweak) ==
  /\ call' = [fn |-> fn, ret |-> res.ret, pub |-> pub, tweak |-> tweak,
              out |-> res.out, imported |-> res.imported]
  /\ frame' = [fn |-> fn, locals |-> res.frame]

EcdsaPubkeyTweakAdd ==
  /\ curve \in {"W23", "K163"}
  /\ call = NoCall
  /\ \E ec \in {EC}, tweak \in Privs(curve), compact \in {0, 1},
        stack \in Stack :
       \E pub \in PeerPubs(ec) :
         TweakReturn(ecdsa_pubkey_tweak_add(ec, pub, Len(pub), tweak,
                                            compact, stack),
                     "ecdsa_pubkey_tweak_add", pub, tweak)
  /\ UNCHANGED <<curve, trick, blind, unblind, key, signed, dh_vars, batch,
                 par_vars>>

SchnorrPubkeyTweakAdd ==
  /\ curve \in {"W23", "K163"}
  /\ call = NoCall
  /\ \E ec \in {EC}, tweak \in Privs(curve), stack \in Stack :
       \E pub \in PeerPubsX(ec) :
         TweakReturn(schnorr_pubkey_tweak_add(ec, pub, tweak, stack),
                     "schnorr_pubkey_tweak_add", pub, tweak)
  /\ UNCHANGED <<curve, trick, blind, unblind, key, signed, dh_vars, batch,
                 par_vars>>

EddsaScalarTweakAdd ==
  /\ curve = "ED127"
  /\ call = NoCall
  /\ \E ec \in {ED127}, scalar \in MontPrivs, tweak \in MontPrivs :
       TweakReturn(eddsa_scalar_tweak_add(ec, scalar, tweak),
                   "eddsa_scalar_tweak_add", scalar, tweak)
  /\ UNCHANGED <<curve, trick, blind, unblind, key, signed, dh_vars, batch,
                 par_vars>>

EddsaScalarTweakMul ==
  /\ curve = "ED127"
  /\ call = NoCall
  /\ \E ec \in {ED127}, scalar \in MontPrivs, tweak \in MontPrivs :
       TweakReturn(eddsa_scalar_tweak_mul(ec, scalar, tweak),
                   "eddsa_scalar_tweak_mul", scalar, tweak)
  /\ UNCHANGED <<curve, trick, blind, unblind, key, signed, dh_vars, batch,
                 par_vars>>

NextTweak ==
  \/ EcdsaPubkeyTweakAdd
  \/ SchnorrPubkeyTweakAdd
  \/ EddsaScalarTweakAdd
  \/ EddsaScalarTweakMul

SpecTweak == InitTweak /\ [][NextTweak]_vars

(***************************************************************************)
(* Barrett reduction: sc_reduce on its own, on every input below 2^(2k)    *)
(* for the one-limb order and on both ends of the range for the others;    *)
(* through sc_mul on every pair of reduced scalars; and through            *)
(* eddsa_hash_final on every double-width digest.                          *)
(***************************************************************************)
InitReduce ==
  /\ curve \in {"W23", "K163", "H31", "ED127"}
  /\ trick = 0
  /\ blind = 0
  /\ unblind = [x |-> 0, y |-> 0, inf |-> 1]
  /\ key = NoKey
  /\ signed = NoSig
  /\ call = NoCall
  /\ frame = NoFrame
  /\ peer = NoKey
  /\ shared = [a |-> NoShared, b |-> NoShared]
  /\ batch = <<>>
  /\ rnd = Idle
  /\ mul = Idle

ReduceField == IF curve = "ED127" THEN ED127.sc ELSE wei_curve(curve).sc

\* The inputs sc_reduce takes: shift limbs.
ReduceTop(sc) == Pow2(sc.shift * GMP_NUMB_BITS)

ReduceInputs(sc) ==
  IF sc.limbs = 1 THEN 0..(ReduceTop(sc) - 1)
  ELSE 0..(2 * sc.n) \cup (ReduceTop(sc) - 1 - 2 * sc.n)..(ReduceTop(sc) - 1)

ScReduceReturn(sc, via, ap, r) ==
  call' = [fn |-> "sc_reduce", via |-> via, n |-> sc.n, a |-> ap,
           u |-> sc_reduce_u(sc, ap), r |-> r]

ScReduce ==
  /\ call = NoCall
  /\ \E sc \in {ReduceField} :
       \E ap \in ReduceInputs(sc) :
         ScReduceReturn(sc, "sc_reduce", ap, sc_reduce(sc, ap))
  /\ UNCHANGED <<curve, trick, blind, unblind, key, signed, frame, dh_vars,
                 batch, par_vars>>

ScMul ==
  /\ call = NoCall
  /\ \E sc \in {ReduceField} :
       \E a \in 0..(sc.n - 1), b \in 0..(sc.n - 1) :
         ScReduceReturn(sc, "sc_mul", a * b, sc_mul(sc, a, b))
  /\ UNCHANGED <<curve, trick, blind, unblind, key, signed, frame, dh_vars,
                 batch, par_vars>>

EddsaHashFinal ==
  /\ curve = "ED127"
  /\ call = NoCall
  /\ \E ec \in {ED127}, b \in 0..255, c \in 0..255 :
       ScReduceReturn(ec.sc, "eddsa_hash_final",
                      mpn_import(<<b, c>>, 2, ec.sc.shift * 2, ec.sc.endian),
                      eddsa_hash_final(ec, <<b, c>>))
  /\ UNCHANGED <<curve, trick, blind, unblind, key, signed, frame, dh_vars,
                 batch, par_vars>>

NextReduce == ScReduce \/ ScMul \/ EddsaHashFinal

SpecReduce == InitReduce /\ [][NextReduce]_vars

(***************************************************************************)
(* Signed digit recoding: sc_naf_var on every reduced scalar of each       *)
(* order, with both signs, the widths the multiplications use and the      *)
(* narrow ones, and lengths from the shortest the caller may pass.         *)
(***************************************************************************)
InitNaf ==
  /\ curve \in {"W23", "K163", "H31"}
  /\ trick = 0
  /\ blind = 0
  /\ unblind = [x |-> 0, y |-> 0, inf |-> 1]
  /\ key = NoKey
  /\ signed = NoSig
  /\ call = NoCall
  /\ frame = NoFrame
  /\ peer = NoKey
  /\ shared = [a |-> NoShared, b |-> NoShared]
  /\ batch = <<>>
  /\ rnd = Idle
  /\ mul = Idle

NafWidths == {1, 2, 3, NAF_WIDTH, NAF_WIDTH_PRE}

\* max as the callers compute it: sc_bitlen_var + 1 of the scalar or of
\* the longer of two, and bits + 1.
NafLengths(sc, x) ==
  {sc_bitlen_var(sc, x) + 1, sc_bitlen_var(sc, x) + 2, sc.bits + 1}

ScNafVar ==
  /\ call = NoCall
  /\ \E sc \in {EC.sc}, sign \in {1, -1}, width \in NafWidths :
       \E x \in 0..(sc.n - 1) :
         \E max \in NafLengths(sc, x) :
           call' = [fn |-> "sc_naf_var", x |-> x, sign |-> sign,
                    width |-> width, max |-> max,
                    naf |-> sc_naf_var(sc, x, sign, width, max)]
  /\ UNCHANGED <<curve, trick, blind, unblind, key, signed, frame, dh_vars,
                 batch, par_vars>>

NextNaf == ScNafVar

SpecNaf == InitNaf /\ [][NextNaf]_vars

(***************************************************************************)
(* Two threads on one context: one inside randomize, one inside the        *)
(* fixed-base multiplication.  The library takes no lock, so the           *)
(* statements of the two interleave: randomize stores ec->blind, then      *)
(* ec->unblind; the multiplication reads ec->blind into k0, then           *)
(* ec->unblind, and after that only the windows, which nothing writes.     *)
(* raced records that the multiplication read ec->blind between the two    *)
(* stores, or that a store fell between its two reads.                     *)
(***************************************************************************)

\* The calls of randomize the first thread makes.
MaxRandomize == 2

\* The scalars the multiplying thread is given.
ParScalars(sc) == {0, 1, 2, sc.n \div 2, sc.n - 1}

PAR == IF curve = "ED127" THEN ED ELSE EC

InitPar ==
  /\ curve \in {"W23", "K163", "ED127"}
  /\ trick = 0
  /\ blind = 0
  /\ unblind = IF curve = "ED127" THEN ED127.unblind
               ELSE wei_curve(curve).unblind
  /\ key = NoKey
  /\ signed = NoSig
  /\ call = NoCall
  /\ frame = NoFrame
  /\ peer = NoKey
  /\ shared = [a |-> NoShared, b |-> NoShared]
  /\ batch = <<>>
  /\ rnd = [pc |-> "idle", left |-> MaxRandomize]
  /\ mul = Idle

\* sc_random and the multiplication of the base point, into the locals.
RandomizeDrawn(res) ==
  /\ res.done = 1
  /\ rnd' = [pc |-> "drawn", left |-> rnd.left - 1, blind |-> res.blind,
             unblind |-> res.unblind]

RandomizeDraw ==
  /\ rnd.pc = "idle"
  /\ rnd.left > 0
  /\ \E ec \in {PAR}, rng \in BlindEntropy(PAR.sc) :
       RandomizeDrawn(IF curve = "ED127" THEN edwards_randomize(ec, rng)
                      ELSE wei_randomize(ec, rng))
  /\ UNCHANGED <<curve, trick, blind, unblind, key, signed, call, frame,
                 dh_vars, batch, mul>>

\* sc_neg(sc, ec->blind, blind).
RandomizeStoreBlind ==
  /\ rnd.pc = "drawn"
  /\ blind' = rnd.blind
  /\ rnd' = [rnd EXCEPT !.pc = "blind"]
  /\ mul' = IF mul.pc = "k0" THEN [mul EXCEPT !.raced = 1] ELSE mul
  /\ UNCHANGED <<curve, trick, unblind, key, signed, call, frame, dh_vars,
                 batch>>

\* wge_set(ec, &ec->unblind, &unblind), the cleansing and the return.
RandomizeStoreUnblind ==
  /\ rnd.pc = "blind"
  /\ unblind' = rnd.unblind
  /\ rnd' = [pc |-> "idle", left |-> rnd.left]
  /\ mul' = IF mul.pc = "k0" THEN [mul EXCEPT !.raced = 1] ELSE mul
  /\ UNCHANGED <<curve, trick, blind, key, signed, call, frame, dh_vars,
                 batch>>

\* sc_add(sc, k0, k, ec->blind).
MulGReadBlind ==
  /\ mul.pc = "idle"
  /\ \E k \in ParScalars(PAR.sc) :
       mul' = [pc |-> "k0", k |-> k, blind |-> blind,
               raced |-> B2I(rnd.pc = "blind")]
  /\ UNCHANGED <<curve, trick, blind, unblind, key, signed, call, frame,
                 dh_vars, batch, rnd>>

\* The read of ec->unblind and the loop over the windows.
MulGReadUnblind ==
  /\ mul.pc = "k0"
  /\ \E ec \in {PAR} :
       mul' = [pc |-> "done", k |-> mul.k, blind |-> mul.blind,
               raced |-> mul.raced, unblind |-> unblind,
               r |-> IF curve = "ED127"
                     THEN edwards_mul_g([ec EXCEPT !.blind = mul.blind],
                                        mul.k)
                     ELSE jge_to_wge(ec,
                            wei_jmul_g_with(ec, mul.k, mul.blind,
                                            ec.unblind))]
  /\ UNCHANGED <<curve, trick, blind, unblind, key, signed, call, frame,
                 dh_vars, batch, rnd>>

MulGReturn ==
  /\ mul.pc = "done"
  /\ mul' = Idle
  /\ UNCHANGED <<curve, trick, blind, unblind, key, signed, call, frame,
                 dh_vars, batch, rnd>>

NextPar ==
  \/ RandomizeDraw \/ RandomizeStoreBlind \/ RandomizeStoreUnblind
  \/ MulGReadBlind \/ MulGReadUnblind \/ MulGReturn

SpecPar == InitPar /\ [][NextPar]_vars

(***************************************************************************)
(* Schnorr signatures: a caller creates a key, signs a message with it and *)
(* verifies the signature.                                                 *)
(***************************************************************************)

\* Private key bytes: every scalar, the order, and past it.
SchnorrPrivs(sc) == {<<b>> : b \in 0..sc.n} \cup {<<255>>}

\* The digests of (a, msg): nonces through the scalars, zero and the order.
MaxNonce == 9

AmDigests(sc) ==
  {<<b>> : b \in 0..MaxNonce} \cup {<<sc.n - 1>>, <<sc.n>>}

\* The digests of (r, x, msg).
RamDigests(sc) == {<<0>>, <<1>>, <<3>>, <<sc.n - 1>>}

InitSchnorr ==
  /\ curve \in {"W23", "K163"}
  /\ trick = 0
  /\ blind = 0
  /\ unblind = wei_curve(curve).unblind
  /\ key = NoKey
  /\ signed = NoSig
  /\ call = NoCall
  /\ frame = NoFrame
  /\ peer = NoKey
  /\ shared = [a |-> NoShared, b |-> NoShared]
  /\ batch = <<>>
  /\ rnd = Idle
  /\ mul = Idle

SchnorrPubkeyCreateReturn(res, priv) ==
  /\ key' = [ret |-> res.ret, priv |-> priv, pub |-> res.pub, compact |-> 0]
  /\ call' = [fn |-> "schnorr_pubkey_create", ret |-> res.ret]

SchnorrPubkeyCreate ==
  /\ key = NoKey
  /\ \E ec \in {EC}, priv \in SchnorrPrivs(EC.sc) :
       SchnorrPubkeyCreateReturn(schnorr_pubkey_create(ec, priv), priv)
  /\ UNCHANGED <<curve, trick, blind, unblind, signed, frame, dh_vars, batch,
                 par_vars>>

SchnorrSignReturn(res, am, ram) ==
  /\ signed' = [ret |-> res.ret, aborted |-> res.aborted, sig |-> res.sig,
                am |-> am, ram |-> ram]
  /\ call' = [fn |-> "schnorr_sign", ret |-> res.ret]

SchnorrSign ==
  /\ call.fn = "schnorr_pubkey_create"
  /\ signed = NoSig
  /\ \E ec \in {EC}, am \in AmDigests(EC.sc), ram \in RamDigests(EC.sc) :
       SchnorrSignReturn(schnorr_sign(ec, key.priv, am, ram), am, ram)
  /\ UNCHANGED <<curve, trick, blind, unblind, key, frame, dh_vars, batch,
                 par_vars>>

\* The message, r and x are those of the signing, and so is the digest.
SchnorrVerify ==
  /\ key.ret = 1
  /\ signed.ret = 1
  /\ call.fn = "schnorr_sign"
  /\ \E ec \in {EC} :
       call' = [fn |-> "schnorr_verify",
                ret |-> schnorr_verify(ec, signed.sig, key.pub, signed.ram)]
  /\ UNCHANGED <<curve, trick, blind, unblind, key, signed, frame, dh_vars,
                 batch, par_vars>>

NextSchnorr == SchnorrPubkeyCreate \/ SchnorrSign \/ SchnorrVerify

SpecSchnorr == InitSchnorr /\ [][NextSchnorr]_vars

(***************************************************************************)
(* Properties of ECDSA.                                                    *)
(***************************************************************************)

\* The integer a scalar's bytes encode.
sc_value(raw) == mpn_import(raw, wei_curve(curve).sc.size,
                            wei_curve(curve).sc.limbs,
                            wei_curve(curve).sc.endian)

SignedR == sc_value(sig_r(wei_curve(curve), signed.sig))

SignedS == sc_value(sig_s(wei_curve(curve), signed.sig))

\* Some point of the curve has the x coordinate x.
OnCurveX(ec, x) ==
  \E y \in 0..(ec.fe.p - 1) :
    (y * y) % ec.fe.p = (x * x * x + ec.a * x + ec.b) % ec.fe.p

\* C6: every signature (r, s) of a successful ecdsa_sign has 1 <= r < n
\* and 1 <= s <= floor(n / 2).
C6_SignRange ==
  signed.ret = 1 =>
    /\ SignedR \in 1..(wei_curve(curve).sc.n - 1)
    /\ SignedS \in 1..(wei_curve(curve).sc.n \div 2)

\* What of C6 the signing loop does keep: r is never 0 and s is never
\* above floor(n / 2).
C6_SignRangeButZero ==
  signed.ret = 1 =>
    /\ SignedR \in 1..(wei_curve(curve).sc.n - 1)
    /\ SignedS \in 0..(wei_curve(curve).sc.n \div 2)

\* C1: with a valid private key ecdsa_sign succeeds, and ecdsa_verify
\* returns 1 for the signature it produced.
C1_SignVerify ==
  /\ (key.ret = 1 /\ signed # NoSig => signed.ret = 1)
  /\ (call.fn = "ecdsa_verify" /\ call.sig = signed.sig => call.ret = 1)

\* C1 for the signatures whose s is not zero.
C1_SignVerifyNonZeroS ==
  /\ (key.ret = 1 /\ signed # NoSig => signed.ret = 1)
  /\ (call.fn = "ecdsa_verify" /\ call.sig = signed.sig /\ SignedS # 0
        => call.ret = 1)

\* C2: ecdsa_recover of the signature and the recovery parameter that
\* ecdsa_sign returned succeeds and returns the encoding of a * G.
C2_SignRecover ==
  call.fn = "ecdsa_recover" /\ call.sig = signed.sig
    /\ call.param = signed.param
    => call.ret = 1 /\ call.pub = key.pub

\* C2 for the signatures whose s is not zero.
C2_SignRecoverNonZeroS ==
  call.fn = "ecdsa_recover" /\ call.sig = signed.sig
    /\ call.param = signed.param /\ SignedS # 0
    => call.ret = 1 /\ call.pub = key.pub

\* C7: ecdsa_verify returns 0 for every signature whose s is above
\* floor(n / 2).
C7_VerifyLowS ==
  call.fn = "ecdsa_verify"
    /\ sc_value(sig_s(wei_curve(curve), call.sig))
         > wei_curve(curve).sc.n \div 2
    => call.ret = 0

\* A high-s signature (r, n - s) was rejected whose twin (r, s) is the
\* valid signature ecdsa_sign produced.
C7_Witness ==
  /\ call.fn = "ecdsa_verify"
  /\ call.ret = 0
  /\ call.sig # signed.sig
  /\ call.sig = Malleated(wei_curve(curve), signed.sig)
  /\ sc_value(sig_s(wei_curve(curve), call.sig))
       > wei_curve(curve).sc.n \div 2
  /\ ecdsa_verify(EC, signed.msg, Len(signed.msg), signed.sig,
                  key.pub, Len(key.pub), trick) = 1

\* The recovery parameter of the latest ecdsa_recover names a high x.
RecoverHigh == call.param \div 2 # 0

RecoverR == sc_value(sig_r(wei_curve(curve), call.sig))

\* C10: ecdsa_recover fails when the parameter names a high x while
\* r >= p mod n, and when the candidate x (r, or r + n for a high x) is
\* the x coordinate of no point of the curve.
C10_RecoverRejects ==
  call.fn = "ecdsa_recover"
    /\ \/ RecoverHigh /\ RecoverR >= wei_curve(curve).pmodn
       \/ ~OnCurveX(wei_curve(curve),
                    IF RecoverHigh THEN RecoverR + wei_curve(curve).sc.n
                    ELSE RecoverR)
    => call.ret = 0

\* A recovery was refused for each reason: a high x with r >= p mod n.
C10_Witness ==
  /\ call.fn = "ecdsa_recover"
  /\ call.ret = 0
  /\ RecoverHigh
  /\ RecoverR >= wei_curve(curve).pmodn
  /\ SignedS # 0

\* The locals of a frame after cleansing: a point (R, A, P) is the zeroed
\* point at infinity, a buffer (rng, bytes) holds zero bytes, a scalar is 0.
Cleansed(locals) ==
  \A l \in DOMAIN locals :
    IF l \in {"R", "A", "P"} THEN locals[l] = [x |-> 0, y |-> 0, inf |-> 1]
    ELSE IF l \in {"rng", "bytes"}
    THEN \A i \in DOMAIN locals[l] : locals[l][i] = 0
    ELSE locals[l] = 0

\* C9: ecdsa_sign, ecdsa_derive and ecdsa_privkey_tweak_add return, on
\* success and on every failure, with each local scalar, point and byte
\* buffer cleansed.
C9_LocalsCleansed ==
  frame.fn \in {"ecdsa_sign", "ecdsa_derive", "ecdsa_privkey_tweak_add"}
    => Cleansed(frame.locals)

\* ecdsa_derive was handed a valid private key and a peer key it refused.
C9_Witness ==
  /\ call.fn = "ecdsa_derive"
  /\ frame.fn = "ecdsa_derive"
  /\ key.ret = 1
  /\ call.ret = 0
  /\ Cleansed(frame.locals)

(***************************************************************************)
(* Properties of key agreement.                                            *)
(***************************************************************************)

\* C3: once both parties have derived, with ecdsa_derive (asking for the
\* same encoding) or with ecdh_derive, they hold the same return value and
\* the same secret bytes.
C3_DeriveAgrees ==
  /\ shared.a # NoShared
  /\ shared.b # NoShared
  /\ shared.a.compact = shared.b.compact
  => /\ shared.a.ret = shared.b.ret
     /\ shared.a.secret = shared.b.secret

\* Two parties with different clamped keys agreed on a Montgomery curve.
C3_Witness ==
  /\ curve = "M127"
  /\ shared.a # NoShared
  /\ shared.b # NoShared
  /\ key.pub # peer.pub
  /\ shared.a.ret = 1
  /\ shared.a.secret = shared.b.secret

(***************************************************************************)
(* Properties of key tweaking.                                             *)
(***************************************************************************)

\* The private key and the tweak handed to ecdsa_privkey_tweak_add.
TweakKey == sc_value(key.priv)

TweakBy == sc_value(call.tweak)

\* C11: ecdsa_privkey_tweak_add fails when the key is 0 or >= n, when the
\* tweak is >= n, or when (key + tweak) mod n = 0; otherwise it succeeds
\* and its output encodes (key + tweak) mod n, which lies in [1, n).
C11_TweakAdd ==
  call.fn = "ecdsa_privkey_tweak_add" =>
    IF \/ TweakKey = 0
       \/ TweakKey >= wei_curve(curve).sc.n
       \/ TweakBy >= wei_curve(curve).sc.n
       \/ (TweakKey + TweakBy) % wei_curve(curve).sc.n = 0
    THEN call.ret = 0
    ELSE /\ call.ret = 1
         /\ Len(call.out) = wei_curve(curve).sc.size
         /\ sc_value(call.out) = (TweakKey + TweakBy) % wei_curve(curve).sc.n
         /\ sc_value(call.out) \in 1..(wei_curve(curve).sc.n - 1)

\* A tweak that carried the key past the order succeeded.
C11_Witness ==
  /\ call.fn = "ecdsa_privkey_tweak_add"
  /\ call.ret = 1
  /\ TweakKey + TweakBy > wei_curve(curve).sc.n
  /\ sc_value(call.out) = TweakKey + TweakBy - wei_curve(curve).sc.n

\* A tweak that is the negation of the key failed.
C11_WitnessZero ==
  /\ call.fn = "ecdsa_privkey_tweak_add"
  /\ call.ret = 0
  /\ TweakKey \in 1..(wei_curve(curve).sc.n - 1)
  /\ TweakKey + TweakBy = wei_curve(curve).sc.n

(***************************************************************************)
(* Properties of key agreement with a peer key of small order.  The        *)
(* reference is the affine group law, worked out in the integers mod p.    *)
(***************************************************************************)

\* 1 / v mod p, for v # 0 mod p.
RefInv(p, v) == CHOOSE i \in 1..(p - 1) : (i * v) % p = 1

\* The u-coordinate of 2 * P on v^2 = u^3 + A u^2 + u, for P with the
\* u-coordinate u; -1 stands for the point at infinity.
RefMontDbl(p, A, u) ==
  IF u = -1 \/ (4 * u * ((u * u + A * u + 1) % p)) % p = 0 THEN -1
  ELSE ((((u * u - 1) * (u * u - 1)) % p)
        * RefInv(p, (4 * u * ((u * u + A * u + 1) % p)) % p)) % p

\* The doubling of (x, y) on a x^2 + y^2 = 1 + d x^2 y^2.
RefEdDbl(p, a, d, P) ==
  <<(((2 * P[1] * P[2]) % p)
     * RefInv(p, (1 + d * ((P[1] * P[1] * P[2] * P[2]) % p)) % p)) % p,
    (((P[2] * P[2] + (p - a) * P[1] * P[1]) % p)
     * RefInv(p, (1 + (p - d) * ((P[1] * P[1] * P[2] * P[2]) % p)) % p)) % p>>

\* The u-coordinate a Montgomery peer key encodes (its top bit is masked).
PeerU == (call.pub[1] % 128) % 127

\* 8 * P is the point at infinity, for every P the Montgomery peer key may
\* stand for (on the curve or on its twist).
MontSmallOrder ==
  RefMontDbl(127, mont_curve(curve).a,
             RefMontDbl(127, mont_curve(curve).a,
                        RefMontDbl(127, mont_curve(curve).a, PeerU))) = -1

\* The points of the Edwards curve a peer key encodes.
PeerXY ==
  {<<x, call.pub[1] % 128>> : x \in
     {x \in 0..126 :
        /\ call.pub[1] % 128 < 127
        /\ x % 2 = call.pub[1] \div 128
        /\ (ED127.a * x * x + (call.pub[1] % 128) * (call.pub[1] % 128)) % 127
           = (1 + ED127.d * ((x * x * (call.pub[1] % 128)
                              * (call.pub[1] % 128)) % 127)) % 127}}

EdSmallOrder ==
  \E P \in PeerXY :
    RefEdDbl(127, ED127.a, ED127.d,
             RefEdDbl(127, ED127.a, ED127.d,
                      RefEdDbl(127, ED127.a, ED127.d, P))) = <<0, 1>>

\* The computed shared point is the identity.
SharedIsIdentity ==
  IF call.fn = "ecdh_derive" THEN pge_is_zero(mont_curve(curve), call.point) = 1
  ELSE call.imported = 1 /\ xge_is_zero(ED127, call.point) = 1

\* The bytes an identity would be exported as: u = 0, and (0, 1).
IdentityBytes == IF call.fn = "ecdh_derive" THEN <<0>> ELSE <<1>>

\* C12: ecdh_derive and eddsa_derive (with the key's hash or with a scalar)
\* fail whenever the computed shared point clamp(a) * A is the identity, as
\* it is for every peer key of small order, and a successful call never
\* hands out the encoding of the identity.
C12_IdentityRefused ==
  call.fn \in {"ecdh_derive", "eddsa_derive", "eddsa_derive_with_scalar"} =>
    /\ SharedIsIdentity => call.ret = 0
    /\ (call.fn = "ecdh_derive" /\ MontSmallOrder) => call.ret = 0
    /\ (call.fn # "ecdh_derive" /\ EdSmallOrder) => call.ret = 0
    /\ call.ret = 1 => call.secret # IdentityBytes

\* eddsa_derive took a peer key of order 8 and computed the identity.
C12_Witness ==
  /\ call.fn = "eddsa_derive"
  /\ call.pub = <<36>>
  /\ EdSmallOrder
  /\ SharedIsIdentity
  /\ call.ret = 0

\* ecdh_derive took a peer key of order 4 and computed the identity.
C12_WitnessEcdh ==
  /\ call.fn = "ecdh_derive"
  /\ call.pub = <<1>>
  /\ MontSmallOrder
  /\ SharedIsIdentity
  /\ call.ret = 0

(***************************************************************************)
(* Properties of point import.                                             *)
(***************************************************************************)

\* (x, y) satisfies y^2 = x^3 + a x + b.
OnCurveXY(ec, x, y) ==
  (y * y) % ec.fe.p = (x * x * x + ec.a * x + ec.b) % ec.fe.p

\* The encodings the claim lists: 02/03 with the x of a point, 04 with a
\* point, 06/07 with a point whose y has the parity of the prefix.
ValidEncoding(ec, raw) ==
  \/ /\ Len(raw) = 1 + ec.fe.size
     /\ raw[1] \in {2, 3}
     /\ raw[2] < ec.fe.p
     /\ OnCurveX(ec, raw[2])
  \/ /\ Len(raw) = 1 + 2 * ec.fe.size
     /\ raw[1] \in {4, 6, 7}
     /\ raw[2] < ec.fe.p
     /\ raw[3] < ec.fe.p
     /\ OnCurveXY(ec, raw[2], raw[3])
     /\ raw[1] \in {6, 7} => raw[1] % 2 = raw[3] % 2

\* C13: wge_import accepts a byte string exactly when it is one of the
\* valid encodings; every other length, prefix or coordinate is refused.
C13_ImportAccepts ==
  call.fn = "wge_import" =>
    (call.ret = 1 <=> ValidEncoding(wei_curve(curve), call.raw))

\* A hybrid encoding with the right parity was accepted.
C13_Witness ==
  /\ call.fn = "wge_import"
  /\ Len(call.raw) = 3
  /\ call.raw[1] = 7
  /\ call.ret = 1
  /\ call.point.y % 2 = 1
  /\ ValidEncoding(wei_curve(curve), call.raw)

\* A hybrid encoding of a point with the wrong parity was refused.
C13_WitnessParity ==
  /\ call.fn = "wge_import"
  /\ Len(call.raw) = 3
  /\ call.raw[1] = 6
  /\ call.ret = 0
  /\ OnCurveXY(wei_curve(curve), call.raw[2], call.raw[3])
  /\ call.raw[3] < wei_curve(curve).fe.p

(***************************************************************************)
(* Properties of the group law.  The reference is the chord and tangent    *)
(* rule on affine points, worked out in the integers mod p.                *)
(***************************************************************************)

\* The group element a Jacobian point stands for: an affine point or the
\* point at infinity.
RefAffine(ec, q) ==
  IF q.z % ec.fe.p = 0 THEN [x |-> 0, y |-> 0, inf |-> 1]
  ELSE [x |-> (q.x * RefInv(ec.fe.p, (q.z * q.z) % ec.fe.p)) % ec.fe.p,
        y |-> (q.y * RefInv(ec.fe.p, (q.z * q.z * q.z) % ec.fe.p))
              % ec.fe.p,
        inf |-> 0]

\* The slope of the tangent at pt, for y # 0.
RefTangent(ec, pt) ==
  (((3 * pt.x * pt.x + ec.a) % ec.fe.p)
   * RefInv(ec.fe.p, (2 * pt.y) % ec.fe.p)) % ec.fe.p

\* 2 * pt by the tangent rule.
RefDbl(ec, pt) ==
  IF pt.inf = 1 \/ pt.y = 0 THEN [x |-> 0, y |-> 0, inf |-> 1]
  ELSE [x |-> (RefTangent(ec, pt) * RefTangent(ec, pt)
               + 2 * (ec.fe.p - pt.x)) % ec.fe.p,
        y |-> (RefTangent(ec, pt)
               * ((pt.x + ec.fe.p
                   - ((RefTangent(ec, pt) * RefTangent(ec, pt)
                       + 2 * (ec.fe.p - pt.x)) % ec.fe.p)) % ec.fe.p)
               + (ec.fe.p - pt.y)) % ec.fe.p,
        inf |-> 0]

\* C14: for every point P of the curve, in every representation, the
\* unified additions jge_add and jge_mixed_add give add(P, P) = dbl(P),
\* add(P, -P) = O and add(O, P) = add(P, O) = P as group elements.
C14_UnifiedAdd ==
  call.fn \in {"jge_add", "jge_mixed_add"} =>
    /\ RefAffine(wei_curve(curve), call.pp)
         = RefAffine(wei_curve(curve), call.dbl)
    /\ RefAffine(wei_curve(curve), call.pp) = RefDbl(wei_curve(curve), call.p)
    /\ RefAffine(wei_curve(curve), call.pn).inf = 1
    /\ RefAffine(wei_curve(curve), call.op) = call.p
    /\ RefAffine(wei_curve(curve), call.po) = call.p
    /\ RefAffine(wei_curve(curve), call.zp) = call.p

\* The addition doubled a point given in two different representations.
C14_Witness ==
  /\ call.fn = "jge_add"
  /\ call.p.inf = 0
  /\ call.a.z # call.b.z
  /\ RefAffine(wei_curve(curve), call.pp).inf = 0
  /\ RefAffine(wei_curve(curve), call.pp) = RefDbl(wei_curve(curve), call.p)
  /\ RefAffine(wei_curve(curve), call.pn).inf = 1

\* The mixed addition doubled a point.
C14_WitnessMixed ==
  /\ call.fn = "jge_mixed_add"
  /\ call.p.inf = 0
  /\ call.a.z # 1
  /\ RefAffine(wei_curve(curve), call.pp) = RefDbl(wei_curve(curve), call.p)
  /\ RefAffine(wei_curve(curve), call.pn).inf = 1

(***************************************************************************)
(* Properties of variable-base multiplication.  The reference for the      *)
(* Edwards curve is the affine addition law, worked out in the integers    *)
(* mod p.                                                                  *)
(***************************************************************************)

\* (x1, y1) + (x2, y2) on a x^2 + y^2 = 1 + d x^2 y^2.
RefEdAdd(p, a, d, P, Q) ==
  <<(((P[1] * Q[2] + P[2] * Q[1]) % p)
     * RefInv(p, (1 + d * ((((P[1] * Q[1]) % p) * ((P[2] * Q[2]) % p)) % p))
                 % p)) % p,
    (((P[2] * Q[2] + (p - a) * ((P[1] * Q[1]) % p)) % p)
     * RefInv(p, (1 + (p - d)
                      * ((((P[1] * Q[1]) % p) * ((P[2] * Q[2]) % p)) % p))
                 % p)) % p>>

\* k * P by k additions.
RECURSIVE RefEdMul(_, _, _, _, _)
RefEdMul(p, a, d, P, k) ==
  IF k = 0 THEN <<0, 1>>
  ELSE RefEdAdd(p, a, d, RefEdMul(p, a, d, P, k - 1), P)

\* The affine point an extended point stands for.
RefEdAffine(p, P) ==
  <<(P.x * RefInv(p, P.z)) % p, (P.y * RefInv(p, P.z)) % p>>

\* The order of the multiplied Edwards point divides n: it has no
\* component in the subgroup of order 8.
InPrimeSubgroup ==
  RefEdMul(127, ED127.a, ED127.d, RefEdAffine(127, call.p), ED127.sc.n)
    = <<0, 1>>

\* The sum of the two products and the product by the reduced sum are one
\* affine point.
SameAffine ==
  /\ call.sum.inf = call.r.inf
  /\ call.sum.inf = 0 => call.sum.x = call.r.x /\ call.sum.y = call.r.y

\* C15, as stated: for any point P accepted by the engine and all scalars
\* k1, k2 in [0, n), k1 * P + k2 * P is the same group element as
\* ((k1 + k2) mod n) * P, on wei_jmul_normal, wei_jmul_endo and
\* edwards_mul.
C15_MulDistributes ==
  call.fn \in {"wei_jmul_normal", "wei_jmul_endo", "edwards_mul"} =>
    call.eq = 1

\* C15, amended: on wei_jmul_normal and wei_jmul_endo, k1 * P + k2 * P is
\* ((k1 + k2) mod n) * P for every point of the curve; on edwards_mul it
\* is (k1 + k2) * P for every accepted point, and ((k1 + k2) mod n) * P
\* for the points whose order divides n.
C15_MulDistributesInOrder ==
  /\ call.fn \in {"wei_jmul_normal", "wei_jmul_endo"} =>
       call.eq = 1 /\ SameAffine
  /\ call.fn = "edwards_mul" =>
       /\ call.equ = 1
       /\ RefEdAdd(127, ED127.a, ED127.d, RefEdAffine(127, call.a),
                   RefEdAffine(127, call.b))
            = RefEdAffine(127, call.sum)
       /\ InPrimeSubgroup => call.eq = 1

\* Two products on the Edwards curve of a point of order n whose scalars
\* add up to n or more.
C15_Witness ==
  /\ call.fn = "edwards_mul"
  /\ InPrimeSubgroup
  /\ RefEdAffine(127, call.p) # <<0, 1>>
  /\ call.k1 + call.k2 > ED127.sc.n
  /\ call.eq = 1
  /\ call.equ = 1

\* The endomorphism path on scalars that wrap around the order, the sum
\* not the point at infinity.
C15_WitnessEndo ==
  /\ call.fn = "wei_jmul_endo"
  /\ call.p.inf = 0
  /\ call.k1 + call.k2 > K163E.sc.n
  /\ call.sum.inf = 0
  /\ call.eq = 1

\* A point with a component of order 8: the two products add up to
\* (k1 + k2) * P and not to ((k1 + k2) mod n) * P.
C15_WitnessTorsion ==
  /\ call.fn = "edwards_mul"
  /\ ~InPrimeSubgroup
  /\ call.k1 + call.k2 >= ED127.sc.n
  /\ call.equ = 1
  /\ call.eq = 0

(***************************************************************************)
(* Properties of the Montgomery ladder.                                    *)
(***************************************************************************)

\* C16: for every scalar k, k * G of the Montgomery ladder (mont_mul on
\* the base u-coordinate) is the u-coordinate of k times the isomorphic
\* Edwards base point, multiplied by the windowed edwards_mul and mapped
\* back to the Montgomery curve; the one is the point at infinity exactly
\* when the other is.
C16_LadderMatchesEdwards ==
  call.fn = "mont_mul_g" =>
    /\ (call.u.z = 0) <=> (call.back.inf = 1)
    /\ call.raw.ret = B2I(call.back.inf = 0)
    /\ call.back.inf = 0 =>
         /\ (call.u.x * RefInv(127, call.u.z)) % 127 = call.back.x
         /\ call.raw.raw = <<call.back.x>>

\* A scalar above the order, as a clamped scalar is, and a product that
\* is a point of the curve.
C16_Witness ==
  /\ call.fn = "mont_mul_g"
  /\ call.k > ED127.sc.n
  /\ call.back.inf = 0
  /\ call.raw.ret = 1
  /\ call.raw.raw = <<call.back.x>>

\* A multiple of the order: both multiplications give the point at
\* infinity.
C16_WitnessInfinity ==
  /\ call.fn = "mont_mul_g"
  /\ call.k > 0
  /\ call.u.z = 0
  /\ call.back.inf = 1

(***************************************************************************)
(* Properties of hashing to the curve.                                     *)
(***************************************************************************)

\* The field element the second half of the output encodes.
SecondHalf ==
  fe_import_uniform(wei_curve(curve).fe,
                    SubSeq(call.bytes, wei_curve(curve).fe.size + 1,
                           2 * wei_curve(curve).fe.size)).r

\* The two points are one group element.
SamePoint(a, b) == a.inf = b.inf /\ (a.inf = 0 => a.x = b.x /\ a.y = b.y)

\* C17: for every curve point P and every entropy for which the loop of
\* wei_point_to_hash terminates, wei_point_from_hash of the output of
\* 2 * size(p) bytes is P.
C17_HashRoundTrip ==
  call.fn = "wei_point_to_hash" =>
    /\ Len(call.bytes) = 2 * wei_curve(curve).fe.size
    /\ SamePoint(call.back, call.p)

\* C17 where the second half is not the encoding of zero: the round trip
\* holds.
C17_HashRoundTripNonZero ==
  call.fn = "wei_point_to_hash" /\ SecondHalf # 0 =>
    /\ Len(call.bytes) = 2 * wei_curve(curve).fe.size
    /\ SamePoint(call.back, call.p)

\* The loop ended and the output hashes back to the point.
C17_Witness ==
  /\ call.fn = "wei_point_to_hash"
  /\ call.p.inf = 0
  /\ SecondHalf # 0
  /\ SamePoint(call.back, call.p)

\* The loop ended on the preimage zero and the output hashes to another
\* point.
C17_WitnessZero ==
  /\ call.fn = "wei_point_to_hash"
  /\ call.p.inf = 0
  /\ SecondHalf = 0
  /\ ~SamePoint(call.back, call.p)

(***************************************************************************)
(* Properties of scalar inversion.                                         *)
(***************************************************************************)

\* C18: for every scalar a in [1, n), sc_invert reports non-zero, gives
\* the inverse of a modulo n, and invert(invert(a)) = a; for a = 0 it
\* reports zero.
C18_InvertInvolution ==
  call.fn = "sc_invert" =>
    /\ call.a = 0 => call.ret = 0
    /\ call.a # 0 =>
         /\ call.ret = 1
         /\ call.r \in 1..(wei_curve(curve).sc.n - 1)
         /\ (call.a * call.r) % wei_curve(curve).sc.n = 1
         /\ call.back.ret = 1
         /\ call.back.r = call.a

\* A scalar that is not its own inverse, inverted twice.
C18_Witness ==
  /\ call.fn = "sc_invert"
  /\ call.a > 1
  /\ call.ret = 1
  /\ call.r # call.a
  /\ call.back.r = call.a

\* The scalar zero.
C18_WitnessZero ==
  /\ call.fn = "sc_invert"
  /\ call.a = 0
  /\ call.ret = 0

(***************************************************************************)
(* Properties of blinding.  The reference is the multiple of the base      *)
(* point by the affine group law.                                          *)
(***************************************************************************)

\* P + Q by the chord and tangent rule.
RefAdd(ec, P, Q) ==
  IF P.inf = 1 THEN Q
  ELSE IF Q.inf = 1 THEN P
  ELSE IF P.x = Q.x
  THEN IF (P.y + Q.y) % ec.fe.p = 0 THEN [x |-> 0, y |-> 0, inf |-> 1]
       ELSE RefDbl(ec, P)
  ELSE [x |-> ((((Q.y + ec.fe.p - P.y)
                 * RefInv(ec.fe.p, (Q.x + ec.fe.p - P.x) % ec.fe.p))
                % ec.fe.p)
               * (((Q.y + ec.fe.p - P.y)
                   * RefInv(ec.fe.p, (Q.x + ec.fe.p - P.x) % ec.fe.p))
                  % ec.fe.p)
               + 2 * ec.fe.p - P.x - Q.x) % ec.fe.p,
        y |-> 0, inf |-> 0]

\* The point of the curve with the x coordinate of the chord's third
\* point, on the chord.
RefSum(ec, P, Q) ==
  IF P.inf = 1 \/ Q.inf = 1 \/ P.x = Q.x THEN RefAdd(ec, P, Q)
  ELSE [RefAdd(ec, P, Q) EXCEPT
          !.y = ((((Q.y + ec.fe.p - P.y)
                   * RefInv(ec.fe.p, (Q.x + ec.fe.p - P.x) % ec.fe.p))
                  % ec.fe.p)
                 * ((P.x + ec.fe.p - RefAdd(ec, P, Q).x) % ec.fe.p)
                 + ec.fe.p - P.y) % ec.fe.p]

RECURSIVE RefMul(_, _, _)
RefMul(ec, P, k) ==
  IF k = 0 THEN [x |-> 0, y |-> 0, inf |-> 1]
  ELSE IF k % 2 = 1 THEN RefSum(ec, RefMul(ec, P, k - 1), P)
  ELSE LET H == RefMul(ec, P, k \div 2) IN RefSum(ec, H, H)

\* The stored pair of the Weierstrass context: unblind = -blind * G.
WeiPairHolds ==
  SamePoint(unblind,
            RefMul(wei_curve(curve), wei_curve(curve).g,
                   (wei_curve(curve).sc.n - blind) % wei_curve(curve).sc.n))

\* The stored pair of the Edwards context.
EdwardsPairHolds ==
  RefEdAffine(127, unblind)
    = RefEdMul(127, ED127.a, ED127.d, RefEdAffine(127, ED127.g),
               (ED127.sc.n - blind) % ED127.sc.n)

\* C19: after initialisation and after any number of completed randomize
\* calls the stored pair satisfies unblind = -blind * G, and the
\* fixed-base multiplications wei_jmul_g and edwards_mul_g return k * G
\* for every scalar k in [0, n).
C19_BlindingPair ==
  /\ curve \in {"W23", "K163"} => WeiPairHolds
  /\ curve = "ED127" => EdwardsPairHolds
  /\ call.fn = "wei_jmul_g" =>
       SamePoint(call.r,
                 RefMul(wei_curve(curve), wei_curve(curve).g, call.k))
  /\ call.fn = "edwards_mul_g" =>
       RefEdAffine(127, call.r)
         = RefEdMul(127, ED127.a, ED127.d, RefEdAffine(127, ED127.g), call.k)

\* A multiplication under a blinding scalar that wraps the sum around the
\* order.
C19_Witness ==
  /\ call.fn = "wei_jmul_g"
  /\ blind # 0
  /\ unblind.inf = 0
  /\ call.k + blind > wei_curve(curve).sc.n
  /\ call.r.inf = 0
  /\ SamePoint(call.r, RefMul(wei_curve(curve), wei_curve(curve).g, call.k))

\* The same on the Edwards curve.
C19_WitnessEdwards ==
  /\ call.fn = "edwards_mul_g"
  /\ blind # 0
  /\ call.k # 0
  /\ call.k + blind > ED127.sc.n
  /\ RefEdAffine(127, call.r)
       = RefEdMul(127, ED127.a, ED127.d, RefEdAffine(127, ED127.g), call.k)

(***************************************************************************)
(* Properties of batch verification.                                       *)
(***************************************************************************)

BatchCall ==
  call.fn \in {"schnorr_verify_batch", "ecdsa_schnorr_verify_batch",
               "eddsa_verify_batch"}

\* schnorr_verify on item i of the batch.
BatchItemVerifies(i) ==
  schnorr_verify(mul_curve(curve), batch[i].sig, batch[i].pub,
                 batch[i].hash) = 1

\* C5: schnorr_verify_batch returns 1 on every batch, of any length, all of
\* whose items pass schnorr_verify, and 0 on such a batch with one item
\* altered so that it fails schnorr_verify.
C5_BatchMatchesSingle ==
  call.fn = "schnorr_verify_batch" =>
    (call.ret = 1 <=> \A i \in 1..Len(batch) : BatchItemVerifies(i))

\* A batch longer than the scratch, all of whose items verify.
C5_Witness ==
  /\ call.fn = "schnorr_verify_batch"
  /\ call.ret = 1
  /\ Len(batch) > 32
  /\ \A i \in 1..Len(batch) : BatchItemVerifies(i)

\* A batch refused for its last item, whose R, key and s are in range.
C5_WitnessAltered ==
  /\ call.fn = "schnorr_verify_batch"
  /\ call.ret = 0
  /\ Len(batch) > 2
  /\ call.calls # <<>>
  /\ ~BatchItemVerifies(Len(batch))
  /\ \A i \in 1..(Len(batch) - 1) : BatchItemVerifies(i)

\* C20: whatever the length of the batch, every call the three batch
\* verifications make to the multiple multiplication has an even len between
\* 2 and 64: the functions return, with no write past the 64 entries of the
\* scratch and no failed assertion on len.
C20_BatchEngineLen ==
  BatchCall =>
    /\ call.at = "return"
    /\ \A i \in 1..Len(call.calls) :
         call.calls[i] % 2 = 0 /\ 2 <= call.calls[i] /\ call.calls[i] <= 64

\* A batch that fills the scratch, is summed, and ends with a part of one.
C20_Witness ==
  /\ BatchCall
  /\ call.ret = 1
  /\ Len(call.calls) = 2
  /\ call.calls[1] = 64
  /\ call.calls[2] < 64

\* A batch rejected at the sum of a full scratch.
C20_WitnessRejected ==
  BatchCall /\ call.ret = 0 /\ call.calls = <<64>> /\ Len(batch) = 32

(***************************************************************************)
(* Properties of randomize beside a multiplication.                        *)
(***************************************************************************)

\* The pair the multiplication read: unblind = -blind * G.
ObservedPairHolds ==
  IF curve = "ED127"
  THEN RefEdAffine(127, mul.unblind)
         = RefEdMul(127, ED127.a, ED127.d, RefEdAffine(127, ED127.g),
                    (ED127.sc.n - mul.blind) % ED127.sc.n)
  ELSE SamePoint(mul.unblind,
                 RefMul(wei_curve(curve), wei_curve(curve).g,
                        (wei_curve(curve).sc.n - mul.blind)
                        % wei_curve(curve).sc.n))

\* The multiplication returned k * G.
ObservedProductHolds ==
  IF curve = "ED127"
  THEN RefEdAffine(127, mul.r)
         = RefEdMul(127, ED127.a, ED127.d, RefEdAffine(127, ED127.g), mul.k)
  ELSE SamePoint(mul.r, RefMul(wei_curve(curve), wei_curve(curve).g, mul.k))

\* C8: under every interleaving of randomize with a fixed-base
\* multiplication on the same context, the multiplication reads the
\* blinding scalar and the unblind point of one pair.
C8_AtomicPair ==
  mul.pc = "done" => ObservedPairHolds

\* C8, amended: the stored pair is matched whenever randomize is not
\* between its two stores, and a multiplication that did not read the scalar
\* between the two stores and had no store between its two reads reads one
\* pair and returns k * G.
C8_PairOutsideStores ==
  /\ rnd.pc # "blind" =>
       /\ curve \in {"W23", "K163"} => WeiPairHolds
       /\ curve = "ED127" => EdwardsPairHolds
  /\ (mul.pc = "done" /\ mul.raced = 0) =>
       ObservedPairHolds /\ ObservedProductHolds

\* A multiplication beside a randomize that had stored nothing or both
\* when it read, under a pair other than the initial one.
C8_Witness ==
  /\ mul.pc = "done"
  /\ mul.raced = 0
  /\ mul.blind # 0
  /\ mul.k # 0
  /\ rnd.pc = "drawn"
  /\ ObservedProductHolds

\* A multiplication that read the old scalar and the new point.
C8_WitnessMixed ==
  /\ mul.pc = "done"
  /\ mul.raced = 1
  /\ ~ObservedPairHolds
  /\ ~ObservedProductHolds

(***************************************************************************)
(* Properties of Schnorr signatures.                                       *)
(***************************************************************************)

\* The key's point a * G and the nonce's point k * G, before either is
\* normalised.
SchnorrA == wei_mul_g(EC, sc_import(EC.sc, key.priv).r)

SchnorrR == wei_mul_g(EC, schnorr_hash_am(EC, signed.am))

\* C4: for every valid private key and every message for which
\* schnorr_sign succeeds, schnorr_verify accepts the signature under the
\* key of schnorr_pubkey_create, whichever of a, n - a and of k, n - k the
\* signing picked.
C4_SchnorrRoundTrip ==
  /\ call.fn = "schnorr_sign" => signed.aborted = 0
  /\ (call.fn = "schnorr_sign" /\ key.ret = 1) =>
       (signed.ret = 1
          <=> sc_is_zero(EC.sc, schnorr_hash_am(EC, signed.am)) = 0)
  /\ call.fn = "schnorr_verify" => call.ret = 1

\* A verification after a signing that negated both a and k.
C4_Witness ==
  /\ call.fn = "schnorr_verify"
  /\ call.ret = 1
  /\ wge_is_square(EC, SchnorrA) = 0
  /\ wge_is_square(EC, SchnorrR) = 0

\* A verification after a signing that negated neither.
C4_WitnessPlain ==
  /\ call.fn = "schnorr_verify"
  /\ call.ret = 1
  /\ wge_is_square(EC, SchnorrA) = 1
  /\ wge_is_square(EC, SchnorrR) = 1

(***************************************************************************)
(* Properties of the coefficients of batch verification.                   *)
(***************************************************************************)

BatchOrder ==
  IF curve = "ED127" THEN ED127.sc.n ELSE mul_curve(curve).sc.n

BatchScalar == IF curve = "ED127" THEN ED127.sc ELSE mul_curve(curve).sc

\* The coefficient of item i was drawn from the generator, after the
\* generator's rejected outputs, and is in [1, n).
WeightDrawn(i) ==
  /\ call.weights[i].drawn = 1
  /\ call.weights[i].a \in 1..(BatchOrder - 1)
  /\ call.weights[i].a = sc_random(BatchScalar, batch[i].rng).k

WeightFixed(i) == call.weights[i] = [drawn |-> 0, a |-> 1]

C21_FixedAfterFlush ==
  /\ BatchCall
  /\ Len(call.weights) >= 33
  /\ call.weights[33].drawn = 0

(***************************************************************************)
(* Properties of a batch of one EdDSA item.                                *)
(***************************************************************************)

SingleVerdict ==
  eddsa_verify_single(ED127, batch[1].sig, batch[1].pub, batch[1].hash)

PlainVerdict ==
  eddsa_verify(ED127, batch[1].sig, batch[1].pub, batch[1].hash)

\* C22: for every message, signature and public key, eddsa_verify_batch on
\* the batch of just that item returns what eddsa_verify_single, the
\* verification with cofactor multiplication, returns on the item.
C22_BatchOfOneIsSingle ==
  /\ (call.fn = "eddsa_verify_batch" /\ Len(batch) = 1) =>
       (call.at = "return" /\ call.ret = SingleVerdict)
  /\ call.fn = "eddsa_verify_single" =>
       call.ret = eddsa_verify_batch(ED127, batch, 1).ret

\* A batch of one accepted, as by eddsa_verify_single, where the
\* verification without cofactor multiplication refuses the item.
C22_Witness ==
  /\ call.fn = "eddsa_verify_batch"
  /\ Len(batch) = 1
  /\ call.ret = 1
  /\ SingleVerdict = 1
  /\ PlainVerdict = 0

\* A batch of one refused at the sum, as by eddsa_verify_single.
C22_WitnessRefused ==
  /\ call.fn = "eddsa_verify_batch"
  /\ Len(batch) = 1
  /\ call.ret = 0
  /\ call.calls = <<2>>
  /\ SingleVerdict = 0

(***************************************************************************)
(* Properties of the additions on pairs of points.                         *)
(***************************************************************************)

PairCurve == wei_curve(curve)

\* The affine operands of the addition in call.
PairP == RefAffine(PairCurve, call.a)

PairQ ==
  IF call.fn \in {"jge_add", "jge_add_var"} THEN RefAffine(PairCurve, call.b)
  ELSE call.b

\* What the constant-time and the variable-time function return on the
\* operands in call.
PairUnified ==
  IF call.fn \in {"jge_add", "jge_add_var"}
  THEN jge_add(PairCurve, call.a, call.b)
  ELSE jge_mixed_add(PairCurve, call.a, call.b)

PairVar ==
  IF call.fn \in {"jge_add", "jge_add_var"}
  THEN jge_add_var(PairCurve, call.a, call.b)
  ELSE jge_mixed_add_var(PairCurve, call.a, call.b)

PairCall ==
  call.fn \in {"jge_add", "jge_add_var", "jge_mixed_add", "jge_mixed_add_var"}

\* Y1 = -Y2 with X1 # X2, both operands finite.
PairOpposedY ==
  /\ PairP.inf = 0
  /\ PairQ.inf = 0
  /\ PairP.x # PairQ.x
  /\ (PairP.y + PairQ.y) % PairCurve.fe.p = 0

\* C23: for every pair of points of the curve, jge_add and jge_mixed_add
\* return the same group element as jge_add_var and jge_mixed_add_var, also
\* on the pairs with Y1 = -Y2 and X1 # X2.
C23_UnifiedIsVar ==
  PairCall =>
    /\ RefAffine(PairCurve, PairUnified) = RefAffine(PairCurve, PairVar)
    /\ call.fn \in {"jge_add", "jge_mixed_add"} =>
         RefAffine(PairCurve, call.r) = RefAffine(PairCurve, PairVar)
    /\ call.fn \in {"jge_add_var", "jge_mixed_add_var"} =>
         RefAffine(PairCurve, call.r) = RefAffine(PairCurve, PairUnified)

\* A constant-time addition of a pair with Y1 = -Y2 and X1 # X2 that took
\* the degenerate path and returned the finite point the variable-time
\* addition returns.
C23_Witness ==
  /\ call.fn = "jge_add"
  /\ PairOpposedY
  /\ call.r.degenerate = 1
  /\ RefAffine(PairCurve, call.r).inf = 0
  /\ RefAffine(PairCurve, call.r) = RefAffine(PairCurve, PairVar)

\* The same for the mixed addition.
C23_WitnessMixed ==
  /\ call.fn = "jge_mixed_add"
  /\ PairOpposedY
  /\ call.r.degenerate = 1
  /\ RefAffine(PairCurve, call.r) = RefAffine(PairCurve, PairVar)

(***************************************************************************)
(* Properties of the degenerate flag of the unified additions.             *)
(***************************************************************************)

UnifiedCall == call.fn \in {"jge_add", "jge_mixed_add"}

PairFinite == PairP.inf = 0 /\ PairQ.inf = 0

\* X1 * Z2^2 = X2 * Z1^2 and Y1 * Z2^3 # Y2 * Z1^3.
PairEqualXOtherY == PairFinite /\ PairP.x = PairQ.x /\ PairP.y # PairQ.y

\* M = 0 and R = 0 for finite operands: y1 + y2 = 0 and
\* x1^2 + x1 * x2 + x2^2 + a = 0.
PairDegenerate ==
  /\ (PairP.y + PairQ.y) % PairCurve.fe.p = 0
  /\ (PairP.x * PairP.x + PairP.x * PairQ.x + PairQ.x * PairQ.x
        + PairCurve.a) % PairCurve.fe.p = 0

\* C24 as stated: in jge_add and jge_mixed_add the degenerate flag is raised
\* exactly when the two finite operands have equal affine x-coordinates and
\* different affine y-coordinates, and whenever the flag is raised the
\* result is the point at infinity.
C24_FlagIsEqualX ==
  (UnifiedCall /\ PairFinite) =>
    /\ call.r.degenerate = 1 <=> PairEqualXOtherY
    /\ call.r.degenerate = 1 => RefAffine(PairCurve, call.r).inf = 1

\* C24: in jge_add and jge_mixed_add, on finite operands, the degenerate
\* flag is raised exactly when M = S1 + S2 and R = T^2 - U1 * U2 + a * Z^4
\* are both zero, which is y1 = -y2 and x1^2 + x1 * x2 + x2^2 + a = 0; when
\* it is raised on operands with x1 # x2 the result is the finite sum of the
\* two points, and the result is the point at infinity exactly when the
\* operands have equal x and opposite y, whether the flag is raised or not.
C24_FlagIsOpposedY ==
  (UnifiedCall /\ PairFinite) =>
    /\ call.r.degenerate = 1 <=> PairDegenerate
    /\ (call.r.degenerate = 1 /\ PairP.x # PairQ.x) =>
         /\ RefAffine(PairCurve, call.r).inf = 0
         /\ RefAffine(PairCurve, call.r) = RefSum(PairCurve, PairP, PairQ)
    /\ RefAffine(PairCurve, call.r).inf = 1
         <=> (PairP.x = PairQ.x
              /\ (PairP.y + PairQ.y) % PairCurve.fe.p = 0)

\* The flag raised on operands with different x, the result finite.
C24_Witness ==
  /\ UnifiedCall
  /\ PairFinite
  /\ call.r.degenerate = 1
  /\ PairP.x # PairQ.x
  /\ RefAffine(PairCurve, call.r).inf = 0

\* P + -P: equal x, different y, the flag not raised, the result the point
\* at infinity.
C24_WitnessOpposite ==
  /\ UnifiedCall
  /\ PairEqualXOtherY
  /\ call.r.degenerate = 0
  /\ RefAffine(PairCurve, call.r).inf = 1

\* P + -P with the flag raised: 3 * x^2 + a = 0.
C24_WitnessBoth ==
  /\ UnifiedCall
  /\ PairEqualXOtherY
  /\ call.r.degenerate = 1

(***************************************************************************)
(* Properties of the comparison of x(R) mod n with r.                      *)
(***************************************************************************)

EqualRCall == call.fn \in {"jge_equal_r", "jge_affine_r"}

\* R is not the point at infinity and its affine x, reduced mod n, is r.
AffineXIsR ==
  /\ RefAffine(EC, call.p).inf = 0
  /\ RefAffine(EC, call.p).x % EC.sc.n = call.r

\* The multiples of n between r and x(R).
AffineXFolds == (RefAffine(EC, call.p).x - call.r) \div EC.sc.n

\* C25: jge_equal_r(R, r) is true iff R is not the point at infinity and
\* the affine x of R reduced mod n equals r, which is what the build that
\* affinizes R computes, and ecdsa_verify returns the same verdict in both
\* builds for every message, signature and public key.
C25_EqualRIsAffine ==
  /\ EqualRCall =>
       /\ call.res.ret = 1 <=> AffineXIsR
       /\ call.res.ret = jge_equal_r(EC, call.p, call.r)
       /\ call.res.ret = jge_affine_r(EC, call.p, call.r)
  /\ call.fn = "ecdsa_verify" =>
       call.ret = ecdsa_verify(EC, call.msg, Len(call.msg), call.sig,
                               call.pub, Len(call.pub), 1 - trick)

\* jge_equal_r true on a scaled R whose x is r + 3 * n or more.
C25_Witness ==
  /\ call.fn = "jge_equal_r"
  /\ call.res.ret = 1
  /\ call.p.z # 1
  /\ AffineXIsR
  /\ AffineXFolds >= 3

\* A signature whose r is x(R) - n, accepted by the build with the trick.
C25_WitnessVerify ==
  /\ call.fn = "ecdsa_verify"
  /\ trick = 1
  /\ call.ret = 1
  /\ \E pt \in Points(EC) :
       /\ pt.inf = 0
       /\ pt.x >= EC.sc.n
       /\ pt.x % EC.sc.n = call.sig[1]

(***************************************************************************)
(* Properties of the increment loop of jge_equal_r.                        *)
(***************************************************************************)

InLoop == call.fn = "jge_equal_r" /\ call.res.pc = "loop"

LoopDone == call.fn = "jge_equal_r" /\ call.res.pc = "done"

\* The additions so far are within floor(p / n), and within the multiples
\* of n between r and p.
LoopBound ==
  call.fn = "jge_equal_r" =>
    /\ call.res.adds \in 0..(EC.fe.p \div EC.sc.n)
    /\ call.res.adds <= (EC.fe.p - 1 - call.r) \div EC.sc.n

\* C26: the increment loop of jge_equal_r terminates on every input, on
\* every curve with n <= p, also where floor(p / n) > 1, after at most
\* floor(p / n) additions of n * Z^2.
C26_LoopTerminates == [](LoopBound) /\ (InLoop ~> LoopDone)

\* The loop left with no match after floor(p / n) = 4 additions.
C26_Witness ==
  /\ LoopDone
  /\ EC.fe.p \div EC.sc.n = 4
  /\ call.res.adds = 4
  /\ call.res.ret = 0

\* The loop left at a match after four additions.
C26_WitnessMatch ==
  /\ LoopDone
  /\ call.res.adds = 4
  /\ call.res.ret = 1

(***************************************************************************)
(* Properties of the double multiplication.                                *)
(***************************************************************************)

DoubleCall ==
  call.fn \in {"wei_jmul_double_normal_var", "wei_jmul_double_endo_var"}

DoubleCurve == mul_curve(curve)

\* k1 * G + k2 * P.
DoubleSum ==
  RefSum(DoubleCurve, RefMul(DoubleCurve, DoubleCurve.g, call.k1),
         RefMul(DoubleCurve, call.p, call.k2))

\* C27: for all scalars k1, k2 in [0, n) and every point P of the curve,
\* zero scalars and the point at infinity included,
\* wei_jmul_double_normal_var and wei_jmul_double_endo_var return
\* k1 * G + k2 * P: no assertion of a recoder fails, and the accumulator is
\* doubled max - 1 times.
C27_DoubleMul ==
  DoubleCall =>
    /\ call.abort = 0
    /\ call.max >= 1
    /\ call.dbls = call.max - 1
    /\ SamePoint(RefAffine(DoubleCurve, call.r), DoubleSum)

\* With the endomorphism: a recoding that fills all max digits, a negative
\* half of a split scalar, and a finite result.
C27_Witness ==
  /\ call.fn = "wei_jmul_double_endo_var"
  /\ call.k1 # 0
  /\ call.k2 # 0
  /\ call.p.inf = 0
  /\ RefAffine(DoubleCurve, call.r).inf = 0
  /\ wei_endo_split(DoubleCurve, call.k2).s1 = -1
  /\ sc_jsf_steps(DoubleCurve.sc, wei_endo_split(DoubleCurve, call.k2).k1,
                  wei_endo_split(DoubleCurve, call.k2).k2) = call.max

\* By interleaved NAFs: k2 = 2^b - 1, whose NAF has one digit more than k2
\* has bits, and fills all max digits.
C27_WitnessNormal ==
  /\ call.fn = "wei_jmul_double_normal_var"
  /\ call.p.inf = 0
  /\ sc_bitlen_var(DoubleCurve.sc, call.k1)
       < sc_bitlen_var(DoubleCurve.sc, call.k2)
  /\ sc_naf_steps(DoubleCurve.sc, call.k2, NAF_WIDTH) = call.max
  /\ RefAffine(DoubleCurve, call.r).inf = 0

\* Both scalars zero and P the point at infinity.
C27_WitnessZero ==
  /\ DoubleCall
  /\ call.k1 = 0
  /\ call.k2 = 0
  /\ call.p.inf = 1
  /\ call.max = 1
  /\ call.dbls = 0

(***************************************************************************)
(* Properties of the tweak functions' local scalars.                       *)
(***************************************************************************)
TweakFns ==
  {"ecdsa_pubkey_tweak_add", "schnorr_pubkey_tweak_add",
   "eddsa_scalar_tweak_add", "eddsa_scalar_tweak_mul"}

\* C28: a tweak function that has imported the tweak into its local scalar
\* t returns, on every path, with every local scalar cleansed, also on the
\* return taken when the tweak fails to import.
C28_TweakLocalsCleansed ==
  (frame.fn \in TweakFns /\ call.imported = 1) => Cleansed(frame.locals)

\* The same for the returns of ecdsa_pubkey_tweak_add and
\* schnorr_pubkey_tweak_add after a tweak that imported.
C28_CleansedOnSuccessPath ==
  (frame.fn \in {"ecdsa_pubkey_tweak_add", "schnorr_pubkey_tweak_add"}
   /\ call.imported = 1 /\ sc_import(EC.sc, call.tweak).ret = 1)
  => Cleansed(frame.locals)

\* The same for the local a of the EdDSA scalar tweaks.
C28_EddsaKeyCleansed ==
  frame.fn \in {"eddsa_scalar_tweak_add", "eddsa_scalar_tweak_mul"}
  => frame.locals.a = 0

(***************************************************************************)
(* Properties of the Barrett reduction.                                    *)
(***************************************************************************)

\* C29: for every input a below 2^(2k), k = (limbs + 1) * GMP_NUMB_BITS,
\* sc_reduce returns a mod n, in [0, n): the estimated quotient times n
\* does not exceed a (u = a - h * n is not negative, the borrow is 0), and
\* u is below 2n, so that one conditional subtraction of n reduces it.
C29_ReduceExact ==
  call.fn = "sc_reduce" =>
    /\ call.a < ReduceTop(ReduceField)
    /\ call.u >= 0
    /\ call.u < 2 * call.n
    /\ call.u % call.n = call.a % call.n
    /\ call.r = call.a % call.n
    /\ call.r \in 0..(call.n - 1)

\* The largest input: its estimated quotient was one short and the
\* conditional subtraction was taken.
C29_Witness ==
  /\ call.fn = "sc_reduce"
  /\ call.via = "sc_reduce"
  /\ call.a = ReduceTop(ReduceField) - 1
  /\ call.u >= call.n
  /\ call.r = call.u - call.n

\* A product of two reduced scalars past the order, reduced without the
\* subtraction.
C29_WitnessProduct ==
  /\ call.fn = "sc_reduce"
  /\ call.via = "sc_mul"
  /\ call.a > call.n
  /\ call.r = call.u

\* A digest of two bytes with both top bits set.
C29_WitnessDigest ==
  /\ call.fn = "sc_reduce"
  /\ call.via = "eddsa_hash_final"
  /\ call.a >= 49152

(***************************************************************************)
(* Properties of the width-w non-adjacent form.                            *)
(***************************************************************************)
NafAbs(z) == IF z < 0 THEN -z ELSE z

\* The integer a digit string stands for: the sum of d[i] * 2^i, with the
\* first digit at i = 0.
NafValue(naf) ==
  For(LAMBDA acc, i : acc + naf[i] * Pow2(i - 1), 0, 1, Len(naf) + 1)

\* C30: for a scalar a in [0, n), a sign, a width w and
\* max >= bitlen(a) + 1, sc_naf_var writes exactly max digits whose value
\* is sign * a; every non-zero digit is odd and below 2^w in absolute
\* value, so that (|d| - 1) / 2 is an index into 2^(w-1) odd multiples;
\* the w digits after a non-zero digit are zero; and every digit past
\* bitlen(a) + 1 is zero.
C30_NafVar ==
  call.fn = "sc_naf_var" =>
    /\ Len(call.naf) = call.max
    /\ NafValue(call.naf) = call.sign * call.x
    /\ \A i \in 1..Len(call.naf) :
         call.naf[i] # 0 =>
           /\ NafAbs(call.naf[i]) % 2 = 1
           /\ NafAbs(call.naf[i]) < Pow2(call.width)
           /\ (NafAbs(call.naf[i]) - 1) \div 2 \in 0..(Pow2(call.width - 1) - 1)
           /\ \A j \in (i + 1)..(i + call.width) :
                j <= Len(call.naf) => call.naf[j] = 0
    /\ \A i \in 1..Len(call.naf) :
         i > bit_length(call.x) + 1 => call.naf[i] = 0

\* A negated recoding of the shortest length whose top digit is the carry
\* of a negative digit, w + 1 places below it.
C30_Witness ==
  /\ call.fn = "sc_naf_var"
  /\ call.sign = -1
  /\ call.max = bit_length(call.x) + 1
  /\ call.naf[call.max] = -1
  /\ call.max > call.width + 1
  /\ call.naf[call.max - call.width - 1] > 0

\* A recoding padded past its last digit.
C30_WitnessPadded ==
  /\ call.fn = "sc_naf_var"
  /\ call.width = NAF_WIDTH
  /\ call.max > bit_length(call.x) + 1
  /\ call.naf[1] < 0
  /\ call.naf[call.max] = 0

====
